---- MODULE Spec2Model ----
(***************************************************************************)
(* A model of the direwolf-display server core: the retention-limited      *)
(* InMemoryStore and the BroadcastHub of src/app/storage.py, with the      *)
(* timestamp derivation of src/app/models.py.                              *)
(*                                                                         *)
(* Time is an integer number of abstract clock units.  A datetime is a     *)
(* record [wall, tz]: the wall-clock reading and the zone offset, tz being *)
(* <<>> for a naive datetime and <<off>> for an aware one.  An Optional    *)
(* value is <<>> (None) or <<v>>.  Every inserted item and every published *)
(* message carries an id field standing for the identity of the Python     *)
(* object.                                                                 *)
(***************************************************************************)
EXTENDS Integers, Sequences, FiniteSets, TLC

\* ------------------------------------------------------------------ bounds
\* retention_seconds of the store under analysis, in clock units.
Retention == 1
\* max_items of the store under analysis.
MaxItems == 2
\* AppSettings.history_retention_seconds: ge=60.
MinRetentionSeconds == 60
\* AppSettings.max_history_items: ge=1.
MinHistoryItems == 1
\* Seconds in one clock unit: the shortest retention window AppSettings
\* accepts is one unit.
SecondsPerTick == MinRetentionSeconds
\* The clock runs from 0 to MaxTime: long enough for an item to age out.
MaxTime == Retention + 1
\* Total number of add_packet / add_rssi calls in one behaviour: enough to
\* overflow a history.
MaxInserts == MaxItems + 1
\* Number of subscribe() calls in one behaviour.
MaxQueues == 2
\* Number of publish() calls in one behaviour.
MaxPublish == 3
\* maxsize of a subscriber queue (512 in subscribe(), scaled down).
QueueMaxsize == 2
\* Number of GET /stream connections in one behaviour.
MaxSessions == 1
\* Items of one ingestion request body, at most.
MaxBatch == 2
\* Tasks that call the store, or the hub, at the same time.
MaxTasks == 2
\* --count of rtl_power_monitor, at most.
MaxCount == 2
\* Samples parsed from the output of one rtl_power run, at most.
MaxSamples == 2
\* Rows the tailed log yields in one behaviour.
MaxRows == 3
\* Measurement runs followed when --count sets no end: one more than any
\* count.
MaxRuns == MaxCount + 1

VARIABLES
    now,            \* the wall clock read by _now() and datetime.now()
    packets,        \* InMemoryStore._packets
    rssi,           \* InMemoryStore._rssi
    config,         \* InMemoryStore._retention and _max_items, once it is built
    last_seen,      \* InMemoryStore._last_seen_by_station
    npackets,       \* number of add_packet calls so far
    nrssi,          \* number of add_rssi calls so far
    latest,         \* history: callsign -> the last packet inserted for it
    last_cutoff,    \* history: the cutoff of the most recent add_packet, if any
    aged,           \* history: ids of packets removed by the age pass of _trim
    aged_rssi,      \* history: ids of samples removed by the age pass of _trim
    listeners,      \* BroadcastHub._listeners (queue handles)
    queues,         \* contents of every queue subscribe() has created
    published,      \* history: every message handed to publish, in call order
    unsubscribed,   \* history: handles on which unsubscribe has returned
    ret,            \* the last operation called, its arguments and what it returned
    sessions,       \* one frame of stream_updates / event_publisher per connection
    ingest,         \* the frame of the running ingest_packets / ingest_rssi call
    oplog,          \* history: the store and hub calls of the ingestion path, in order
    locks,          \* InMemoryStore._lock and BroadcastHub._lock: the task that holds each
    calls,          \* the frame of each task's store or hub call, statement by statement
    tool            \* the frame of main() of a posting tool of src/tools

storeVars == <<packets, rssi, last_seen, npackets, nrssi, latest, last_cutoff, aged,
               aged_rssi, config>>
hubVars == <<listeners, queues, published, unsubscribed>>
\* The variables of the handlers that call the store and the hub.
callerVars == <<sessions, ingest, oplog>>
\* The two locks and the frames of the calls made under them.
taskVars == <<locks, calls>>
\* The frame of a tool that feeds the server.
toolVars == <<tool>>
vars == <<now, packets, rssi, last_seen, npackets, nrssi, latest, last_cutoff, aged, aged_rssi,
          config, listeners, queues, published, unsubscribed, ret, sessions, ingest, oplog,
          locks, calls, tool>>

\* ------------------------------------------------------------- datetimes
None == <<>>

Some(v) == <<v>>

UTC == <<0>>

Dt(wall) == [wall |-> wall, tz |-> UTC]

\* models.py _ensure_utc: a naive value is taken as UTC, an aware one is
\* converted to UTC (same instant).
EnsureUtc(value) ==
    IF value.tz = None
    THEN [wall |-> value.wall, tz |-> UTC]
    ELSE [wall |-> value.wall - value.tz[1], tz |-> UTC]

\* datetime.fromtimestamp(unix_time, tz=timezone.utc)
FromTimestamp(unix_time) == [wall |-> unix_time, tz |-> UTC]

\* The instant an aware datetime denotes; comparison of aware datetimes
\* compares instants.
Instant(d) == d.wall - d.tz[1]

DtLess(a, b) == Instant(a) < Instant(b)

\* storage.py _now() at clock reading t.
Now(t) == [wall |-> t, tz |-> UTC]

\* An effective_datetime that looks at unix_time first.
PacketEffectiveDatetimeEpochFirst(p, t) ==
    IF p.unix_time # None THEN FromTimestamp(p.unix_time[1])
    ELSE IF p.timestamp # None THEN EnsureUtc(p.timestamp[1])
    ELSE Now(t)

\* PacketEvent.effective_datetime evaluated at clock reading t.
PacketEffectiveDatetime(p, t) ==
    IF p.timestamp # None THEN EnsureUtc(p.timestamp[1])
    ELSE IF p.unix_time # None THEN FromTimestamp(p.unix_time[1])
    ELSE Now(t)

\* RssiSample.effective_datetime evaluated at clock reading t.
RssiEffectiveDatetime(s, t) ==
    IF s.timestamp # None THEN EnsureUtc(s.timestamp[1])
    ELSE Now(t)

\* item.effective_datetime for either kind of item.
EffectiveDatetime(item, t) ==
    IF "unix_time" \in DOMAIN item
    THEN PacketEffectiveDatetime(item, t)
    ELSE RssiEffectiveDatetime(item, t)

\* ------------------------------------------------------------ the store
\* cutoff = _now() - self._retention
Cutoff(t) == [wall |-> Now(t).wall - config.retention, tz |-> Now(t).tz]

\* A test that takes an item without a timestamp for stale.
IsStaleOrUndated(item, cutoff, t) ==
    item.timestamp = None \/ DtLess(EffectiveDatetime(item, t), cutoff)

\* _is_stale: item.effective_datetime < cutoff, read at clock reading t.
IsStale(item, cutoff, t) == DtLess(EffectiveDatetime(item, t), cutoff)

\* An age pass that removes every stale item, wherever it stands.
RECURSIVE AgePassAnywhere(_, _, _)
AgePassAnywhere(collection, cutoff, t) ==
    IF collection = <<>> THEN <<>>
    ELSE IF IsStale(Head(collection), cutoff, t)
         THEN AgePassAnywhere(Tail(collection), cutoff, t)
         ELSE <<Head(collection)>> \o AgePassAnywhere(Tail(collection), cutoff, t)

\* while collection and self._is_stale(collection[0], cutoff): popleft()
RECURSIVE AgePass(_, _, _)
AgePass(collection, cutoff, t) ==
    IF collection # <<>> /\ IsStale(Head(collection), cutoff, t)
    THEN AgePass(Tail(collection), cutoff, t)
    ELSE collection

\* A capacity pass that pops from the newest end.
RECURSIVE CapacityPassNewest(_)
CapacityPassNewest(collection) ==
    IF Len(collection) > MaxItems
    THEN CapacityPassNewest(SubSeq(collection, 1, Len(collection) - 1))
    ELSE collection

\* A capacity pass that is never run.
CapacityPassSkipped(collection) == collection

\* while len(collection) > self._max_items: popleft(), with what leaves
\* it: popleft() of an empty deque raises IndexError.
RECURSIVE CapacityLoop(_, _)
CapacityLoop(collection, max_items) ==
    IF Len(collection) > max_items
    THEN IF collection = <<>>
         THEN [raised |-> TRUE, collection |-> collection]
         ELSE CapacityLoop(Tail(collection), max_items)
    ELSE [raised |-> FALSE, collection |-> collection]

\* while len(collection) > self._max_items: popleft()
CapacityPass(collection) == CapacityLoop(collection, config.max_items).collection

\* The two eviction loops of _trim.
TrimCollection(collection, cutoff, t) ==
    CapacityPass(AgePass(collection, cutoff, t))

\* Whether _trim leaves its capacity loop with an IndexError.
TrimRaises(collection, cutoff, t) ==
    CapacityLoop(AgePass(collection, cutoff, t), config.max_items).raised

\* A pruning that is never run.
PruneLastSeenSkipped(index, cutoff, t) == index

\* A pruning that measures against a cutoff one clock unit earlier than the
\* one it is given.
PruneLastSeenEarlierCutoff(index, cutoff, t) ==
    [c \in {k \in DOMAIN index :
               ~DtLess(PacketEffectiveDatetime(index[k], t),
                       [wall |-> cutoff.wall - 1, tz |-> cutoff.tz])}
        |-> index[c]]

\* _prune_last_seen: drop every entry whose packet is older than cutoff.
PruneLastSeen(index, cutoff, t) ==
    [c \in {k \in DOMAIN index : ~DtLess(PacketEffectiveDatetime(index[k], t), cutoff)}
        |-> index[c]]

\* d.setdefault(k, v): an existing entry is kept.
DictSetDefault(d, k, v) == [x \in DOMAIN d \cup {k} |-> IF x \in DOMAIN d THEN d[x] ELSE v]

\* d[k] = v on a dict.
DictSet(d, k, v) == [x \in DOMAIN d \cup {k} |-> IF x = k THEN v ELSE d[x]]

\* A test that takes every string, the empty one too, for a callsign.
TruthyNotNone(s) == s # None

\* Python truthiness of an Optional[str].
Truthy(s) == s # None /\ s[1] # ""

Min(a, b) == IF a <= b THEN a ELSE b

Ids(collection) == {collection[i].id : i \in DOMAIN collection}

\* Inputs: what a caller may hand to add_packet / add_rssi at clock reading t.
\* An explicit timestamp is either the current time or one already outside
\* the retention window.
FreshTimestamp(t) == Some(Dt(t))

StaleTimestamp(t) == Some(Dt(t - Retention - 1))

PacketInput(timestamp, source_callsign) ==
    [timestamp |-> timestamp, unix_time |-> None, source_callsign |-> source_callsign]

PacketInputs(t) ==
    {PacketInput(FreshTimestamp(t), Some("A")),
     PacketInput(StaleTimestamp(t), Some("A")),
     PacketInput(None, Some("A")),
     PacketInput(FreshTimestamp(t), Some("B")),
     PacketInput(FreshTimestamp(t), None),
     PacketInput(FreshTimestamp(t), Some(""))}

RssiInputs(t) == {[timestamp |-> ts] : ts \in {FreshTimestamp(t), StaleTimestamp(t), None}}

\* InMemoryStore(retention_seconds=..., max_items=...): the fields that
\* hold the configuration; nothing is checked.
StoreConfig(retention_seconds, max_items) ==
    [built |-> TRUE, retention |-> retention_seconds \div SecondsPerTick,
     max_items |-> max_items]

\* The histories and the index of a new store, and the history variables.
InitHistories ==
    /\ packets = <<>>
    /\ rssi = <<>>
    /\ last_seen = [c \in {} |-> None]
    /\ npackets = 0
    /\ nrssi = 0
    /\ latest = [c \in {} |-> None]
    /\ last_cutoff = None
    /\ aged = {}
    /\ aged_rssi = {}

\* The store of create_app with settings that passed validation.
InitStore ==
    /\ config = StoreConfig(Retention * SecondsPerTick, MaxItems)
    /\ InitHistories

InitHub ==
    /\ listeners = {}
    /\ queues = [q \in {} |-> <<>>]
    /\ published = <<>>
    /\ unsubscribed = {}

\* The connections that may be opened: each one calls subscribe() once.
Sessions == 1..MaxSessions

\* No connection is open and no ingestion request is running.
InitCallers ==
    /\ sessions = [s \in Sessions |->
                      [pc |-> "idle", initial_messages |-> <<>>, next |-> 0, queue |-> 0,
                       emitted |-> <<>>, disconnected |-> FALSE, unsubscribes |-> 0]]
    /\ ingest = [pc |-> "idle", kind |-> "none", items |-> <<>>, pos |-> 0,
                 accepted |-> 0, item |-> None]
    /\ oplog = <<>>

\* The tasks whose calls are followed statement by statement.
Tasks == 1..MaxTasks

\* A lock that no task holds.
Free == 0

\* A task that is in no call.
NoCall ==
    [op |-> "none", pc |-> "idle", arg |-> None, cutoff |-> None, queue |-> 0,
     copy |-> {}, listeners |-> <<>>, delivered |-> {}, skipped |-> {}]

\* asyncio.Lock(): both locks are free, and no call is in progress.
InitTasks ==
    /\ locks = [store |-> Free, hub |-> Free]
    /\ calls = [t \in Tasks |-> NoCall]

\* No tool has been started.
NoTool ==
    [kind |-> "none", pc |-> "idle", posting |-> FALSE, batch_size |-> 0, count |-> None,
     header |-> FALSE, pending |-> 0, batch |-> <<>>, iterations |-> 0, produced |-> 0,
     runs |-> <<>>, posts |-> <<>>, exit |-> None]

InitTool == tool = NoTool

Init ==
    /\ now = 0
    /\ InitStore
    /\ InitHub
    /\ InitCallers
    /\ InitTasks
    /\ InitTool
    /\ ret = [op |-> "init"]

\* Time passes between two operations.
Tick ==
    /\ now < MaxTime
    /\ now' = now + 1
    /\ UNCHANGED <<storeVars, hubVars, ret>>

\* InMemoryStore.add_packet, with the _trim(prune_last_seen=True) it calls.
AddPacket(input) ==
    /\ npackets + nrssi < MaxInserts
    /\ LET packet == [id |-> npackets + 1,
                      timestamp |-> input.timestamp,
                      unix_time |-> input.unix_time,
                      source_callsign |-> input.source_callsign]
           appended == Append(packets, packet)
           indexed == IF Truthy(packet.source_callsign)
                      THEN DictSet(last_seen, packet.source_callsign[1], packet)
                      ELSE last_seen
           cutoff == Cutoff(now)
           raised == TrimRaises(appended, cutoff, now)
       IN /\ packets' = TrimCollection(appended, cutoff, now)
          /\ last_seen' = IF raised THEN indexed ELSE PruneLastSeen(indexed, cutoff, now)
          /\ aged' = aged \cup (Ids(appended) \ Ids(AgePass(appended, cutoff, now)))
          /\ latest' = IF Truthy(packet.source_callsign)
                       THEN [c \in DOMAIN latest \cup {packet.source_callsign[1]} |->
                                IF c = packet.source_callsign[1] THEN packet ELSE latest[c]]
                       ELSE latest
          /\ last_cutoff' = Some(cutoff)
          /\ ret' = [op |-> "add_packet", at |-> now, item |-> packet, cutoff |-> cutoff,
                     raised |-> raised]
    /\ npackets' = npackets + 1
    /\ UNCHANGED <<now, rssi, nrssi, aged_rssi, config, hubVars>>

\* An add_rssi whose _trim also runs on the packets and prunes the index.
AddRssiPruning(input) ==
    /\ npackets + nrssi < MaxInserts
    /\ LET sample == [id |-> nrssi + 1, timestamp |-> input.timestamp]
           appended == Append(rssi, sample)
           cutoff == Cutoff(now)
       IN /\ rssi' = TrimCollection(appended, cutoff, now)
          /\ packets' = TrimCollection(packets, cutoff, now)
          /\ last_seen' = PruneLastSeen(last_seen, cutoff, now)
          /\ aged_rssi' = aged_rssi \cup (Ids(appended) \ Ids(AgePass(appended, cutoff, now)))
          /\ ret' = [op |-> "add_rssi", at |-> now, item |-> sample, cutoff |-> cutoff,
                     raised |-> TrimRaises(appended, cutoff, now)]
    /\ nrssi' = nrssi + 1
    /\ UNCHANGED <<now, npackets, latest, last_cutoff, aged, config, hubVars>>

\* InMemoryStore.add_rssi, with the _trim it calls.
AddRssi(input) ==
    /\ npackets + nrssi < MaxInserts
    /\ LET sample == [id |-> nrssi + 1, timestamp |-> input.timestamp]
           appended == Append(rssi, sample)
           cutoff == Cutoff(now)
       IN /\ rssi' = TrimCollection(appended, cutoff, now)
          /\ aged_rssi' = aged_rssi \cup (Ids(appended) \ Ids(AgePass(appended, cutoff, now)))
          /\ ret' = [op |-> "add_rssi", at |-> now, item |-> sample, cutoff |-> cutoff,
                     raised |-> TrimRaises(appended, cutoff, now)]
    /\ nrssi' = nrssi + 1
    /\ UNCHANGED <<now, packets, last_seen, npackets, latest, last_cutoff, aged, config,
                   hubVars>>

\* A get_recent_packets that leaves out what has aged past the window.
GetRecentPacketsInWindow ==
    /\ ret' = [op |-> "get_recent_packets", at |-> now,
               value |-> AgePassAnywhere(packets, Cutoff(now), now)]
    /\ UNCHANGED <<now, storeVars, hubVars>>

\* InMemoryStore.get_recent_packets
GetRecentPackets ==
    /\ ret' = [op |-> "get_recent_packets", at |-> now, value |-> packets]
    /\ UNCHANGED <<now, storeVars, hubVars>>

\* InMemoryStore.get_recent_rssi
GetRecentRssi ==
    /\ ret' = [op |-> "get_recent_rssi", at |-> now, value |-> rssi]
    /\ UNCHANGED <<now, storeVars, hubVars>>

\* InMemoryStore.get_last_seen
GetLastSeen ==
    /\ ret' = [op |-> "get_last_seen", at |-> now, value |-> last_seen]
    /\ UNCHANGED <<now, storeVars, hubVars>>

\* A stats that runs the eviction of _trim on the packets before counting.
StatsTrimming ==
    /\ packets' = TrimCollection(packets, Cutoff(now), now)
    /\ ret' = [op |-> "stats", at |-> now,
               value |-> [packets |-> Len(packets'),
                          rssi_samples |-> Len(rssi),
                          stations_tracked |-> Cardinality(DOMAIN last_seen)]]
    /\ UNCHANGED <<now, rssi, last_seen, npackets, nrssi, latest, last_cutoff, aged,
                   aged_rssi, config, hubVars>>

\* InMemoryStore.stats
Stats ==
    /\ ret' = [op |-> "stats", at |-> now,
               value |-> [packets |-> Len(packets),
                          rssi_samples |-> Len(rssi),
                          stations_tracked |-> Cardinality(DOMAIN last_seen)]]
    /\ UNCHANGED <<now, storeVars, hubVars>>

\* An insertion that puts the entry in front of the entries of equal key.
RECURSIVE InsertSortedBeforeEqual(_, _)
InsertSortedBeforeEqual(sorted, entry) ==
    IF sorted = <<>> THEN <<entry>>
    ELSE IF ~DtLess(Head(sorted).key, entry.key)
         THEN <<entry>> \o sorted
         ELSE <<Head(sorted)>> \o InsertSortedBeforeEqual(Tail(sorted), entry)

\* Stable insertion of one (key, message) entry behind every entry whose key
\* is not greater: list.sort(key=...) is stable.
RECURSIVE InsertSorted(_, _)
InsertSorted(sorted, entry) ==
    IF sorted = <<>> THEN <<entry>>
    ELSE IF DtLess(entry.key, Head(sorted).key)
         THEN <<entry>> \o sorted
         ELSE <<Head(sorted)>> \o InsertSorted(Tail(sorted), entry)

\* A sort that leaves the entries as they were appended.
SortEntriesSkipped(entries) == entries

\* entries.sort(key=lambda item: item[0])
RECURSIVE SortEntries(_)
SortEntries(entries) ==
    IF entries = <<>> THEN <<>>
    ELSE InsertSorted(SortEntries(SubSeq(entries, 1, Len(entries) - 1)),
                      entries[Len(entries)])

\* datetime serialised by model_dump(mode="json"): an ISO-8601 string,
\* which spells out the wall-clock reading and the offset.
IsoFormat(ts) == IF ts = None THEN None ELSE <<"iso", ts[1].wall, ts[1].tz>>

\* datetime parsed back from its ISO-8601 string.
FromIso(text) == IF text = None THEN None ELSE Some([wall |-> text[2], tz |-> text[3]])

\* item.model_dump(mode="json")
ModelDump(item) ==
    [f \in DOMAIN item |-> IF f = "timestamp" THEN IsoFormat(item.timestamp) ELSE item[f]]

\* StreamMessage(event_type=..., payload=...)
StreamMessage(event_type, payload) == [event_type |-> event_type, payload |-> payload]

\* The entries list snapshot_stream_events builds under the lock: packets,
\* then samples, each keyed by its effective_datetime.
SnapshotEntries(t) ==
    [i \in 1..Len(packets) |->
        [key |-> EffectiveDatetime(packets[i], t),
         message |-> StreamMessage("packet", ModelDump(packets[i]))]]
    \o [i \in 1..Len(rssi) |->
        [key |-> EffectiveDatetime(rssi[i], t),
         message |-> StreamMessage("rssi", ModelDump(rssi[i]))]]

\* InMemoryStore.snapshot_stream_events
SnapshotStreamEvents ==
    /\ LET sorted == SortEntries(SnapshotEntries(now))
       IN ret' = [op |-> "snapshot_stream_events", at |-> now,
                  value |-> [i \in 1..Len(sorted) |-> sorted[i].message]]
    /\ UNCHANGED <<now, storeVars, hubVars>>

\* A filter that leaves out the entries dated exactly `since`.
StationsSinceStrict(index, since, t) ==
    [c \in {k \in DOMAIN index : DtLess(since, PacketEffectiveDatetime(index[k], t))}
        |-> index[c]]

\* The dict comprehension of recent_stations.
StationsSince(index, since, t) ==
    [c \in {k \in DOMAIN index : ~DtLess(PacketEffectiveDatetime(index[k], t), since)}
        |-> index[c]]

\* Cutoffs a caller may hand to recent_stations at clock reading t.
SinceInputs(t) == {Dt(t), Dt(t - Retention - 2)}

\* InMemoryStore.recent_stations
RecentStations(since) ==
    /\ ret' = [op |-> "recent_stations", at |-> now, since |-> since,
               value |-> StationsSince(last_seen, since, now)]
    /\ UNCHANGED <<now, storeVars, hubVars>>

\* The store called directly, one operation at a time.
NextStore ==
    \/ Tick /\ UNCHANGED <<callerVars, taskVars, toolVars>>
    \/ \E input \in PacketInputs(now) : AddPacket(input) /\ UNCHANGED <<callerVars, taskVars, toolVars>>
    \/ \E input \in RssiInputs(now) : AddRssi(input) /\ UNCHANGED <<callerVars, taskVars, toolVars>>
    \/ GetRecentPackets /\ UNCHANGED <<callerVars, taskVars, toolVars>>
    \/ GetRecentRssi /\ UNCHANGED <<callerVars, taskVars, toolVars>>
    \/ GetLastSeen /\ UNCHANGED <<callerVars, taskVars, toolVars>>
    \/ Stats /\ UNCHANGED <<callerVars, taskVars, toolVars>>
    \/ SnapshotStreamEvents /\ UNCHANGED <<callerVars, taskVars, toolVars>>
    \/ \E since \in SinceInputs(now) : RecentStations(since) /\ UNCHANGED <<callerVars, taskVars, toolVars>>

StoreSpec == Init /\ [][NextStore]_vars

\* -------------------------------------------------------------- the hub
\* A full() that is one item late.
FullAbove(queue) == Len(queue) > QueueMaxsize

\* asyncio.Queue.full() for a queue of maxsize QueueMaxsize.
Full(queue) == Len(queue) >= QueueMaxsize

\* A put_nowait that enqueues at the head.
PutNowaitFront(queue, item) ==
    IF Full(queue)
    THEN [raised |-> TRUE, queue |-> queue]
    ELSE [raised |-> FALSE, queue |-> <<item>> \o queue]

\* asyncio.Queue.put_nowait: raises QueueFull on a full queue.
PutNowait(queue, item) ==
    IF Full(queue)
    THEN [raised |-> TRUE, queue |-> queue]
    ELSE [raised |-> FALSE, queue |-> Append(queue, item)]

\* A get_nowait that takes the newest item instead of the oldest.
GetNowaitNewest(queue) ==
    IF queue = <<>>
    THEN [raised |-> TRUE, queue |-> queue]
    ELSE [raised |-> FALSE, queue |-> SubSeq(queue, 1, Len(queue) - 1)]

\* asyncio.Queue.get_nowait: raises QueueEmpty on an empty queue, else
\* removes the oldest item.
GetNowait(queue) ==
    IF queue = <<>>
    THEN [raised |-> TRUE, queue |-> queue]
    ELSE [raised |-> FALSE, queue |-> Tail(queue)]

\* A loop body that puts without handling QueueFull.
DeliverOutcomeUnguarded(queue, message) ==
    LET first == PutNowait(queue, message)
    IN [queue |-> first.queue, raised |-> first.raised, skipped |-> FALSE]

\* The body of publish's loop for one queue, with what leaves it: the
\* queue, whether an exception escapes, and whether the message was
\* skipped.  QueueFull of the first put, QueueEmpty of the get and
\* QueueFull of the second put are all handled.
DeliverOutcome(queue, message) ==
    LET first == PutNowait(queue, message)
        got == GetNowait(queue)
        second == PutNowait(got.queue, message)
    IN IF ~first.raised THEN [queue |-> first.queue, raised |-> FALSE, skipped |-> FALSE]
       ELSE IF ~second.raised
            THEN [queue |-> second.queue, raised |-> FALSE, skipped |-> FALSE]
            ELSE [queue |-> got.queue, raised |-> FALSE, skipped |-> TRUE]

\* The body of publish's loop for one queue: put, and on QueueFull drop the
\* oldest item and put again; a second QueueFull skips the message.
Deliver(queue, message) == DeliverOutcome(queue, message).queue

\* list(self._listeners): the listeners in any order.
Orders(set) ==
    {order \in [1..Cardinality(set) -> set] :
        \A i, j \in DOMAIN order : order[i] = order[j] => i = j}

\* The loop of publish over the listed queues: an exception that escapes
\* the body ends the loop with the queues behind it untouched.
RECURSIVE FanOut(_, _, _)
FanOut(qs, order, message) ==
    IF order = <<>> THEN [queues |-> qs, raised |-> FALSE, skipped |-> {}]
    ELSE LET queue == Head(order)
             out == DeliverOutcome(qs[queue], message)
             rest == FanOut([qs EXCEPT ![queue] = Deliver(@, message)], Tail(order), message)
         IN IF out.raised THEN [queues |-> qs, raised |-> TRUE, skipped |-> {}]
            ELSE [rest EXCEPT !.skipped = @ \cup (IF out.skipped THEN {queue} ELSE {})]

\* An unsubscribe that leaves the set as it is.
SetKeep(set, x) == [raised |-> FALSE, set |-> set]

\* set.discard: never raises.
SetDiscard(set, x) == [raised |-> FALSE, set |-> set \ {x}]

\* The message object handed to publish: the n-th one, with its content.
Published(n, message) ==
    [id |-> n, event_type |-> message.event_type, payload |-> message.payload]

\* Messages the ingestion path builds: a packet and a sample, dumped.
MessageInputs ==
    {StreamMessage("packet",
        ModelDump([id |-> 1, timestamp |-> Some(Dt(0)), unix_time |-> None,
                   source_callsign |-> Some("A")])),
     StreamMessage("rssi", ModelDump([id |-> 1, timestamp |-> Some(Dt(0))]))}

\* BroadcastHub.subscribe
Subscribe ==
    /\ Cardinality(DOMAIN queues) < MaxQueues
    /\ LET queue == Cardinality(DOMAIN queues) + 1
       IN /\ queues' = [q \in DOMAIN queues \cup {queue} |->
                            IF q = queue THEN <<>> ELSE queues[q]]
          /\ listeners' = listeners \cup {queue}
          /\ ret' = [op |-> "subscribe", value |-> queue]
    /\ UNCHANGED <<now, storeVars, published, unsubscribed>>

\* BroadcastHub.unsubscribe, on any handle subscribe has returned.
Unsubscribe(queue) ==
    /\ queue \in DOMAIN queues
    /\ LET r == SetDiscard(listeners, queue)
       IN /\ listeners' = r.set
          /\ ret' = [op |-> "unsubscribe", queue |-> queue, raised |-> r.raised,
                     registered |-> queue \in listeners,
                     again |-> queue \in unsubscribed]
    /\ unsubscribed' = unsubscribed \cup {queue}
    /\ UNCHANGED <<now, storeVars, queues, published>>

\* BroadcastHub.publish: snapshot of the listeners, then the loop.
Publish(input) ==
    /\ Len(published) < MaxPublish
    /\ LET message == Published(Len(published) + 1, input)
           snapshot == listeners
       IN \E order \in Orders(snapshot) :
             LET fan == FanOut(queues, order, message)
             IN /\ queues' = fan.queues
                /\ published' = Append(published, message)
                /\ ret' = [op |-> "publish", input |-> input, message |-> message,
                           overflowed |-> {q \in snapshot :
                                              PutNowait(queues[q], message).raised},
                           raised |-> fan.raised, skipped |-> fan.skipped]
    /\ UNCHANGED <<now, storeVars, listeners, unsubscribed>>

\* A get that hands out the newest message of the queue first.
QueueGetNewest(queue) ==
    /\ queue \in DOMAIN queues
    /\ queues[queue] # <<>>
    /\ queues' = [queues EXCEPT ![queue] = SubSeq(@, 1, Len(@) - 1)]
    /\ ret' = [op |-> "queue_get", queue |-> queue,
               message |-> queues[queue][Len(queues[queue])]]
    /\ UNCHANGED <<now, storeVars, listeners, published, unsubscribed>>

\* queue.get() by the consumer of a queue that holds a message.
QueueGet(queue) ==
    /\ queue \in DOMAIN queues
    /\ queues[queue] # <<>>
    /\ queues' = [queues EXCEPT ![queue] = Tail(@)]
    /\ ret' = [op |-> "queue_get", queue |-> queue, message |-> Head(queues[queue])]
    /\ UNCHANGED <<now, storeVars, listeners, published, unsubscribed>>

\* The hub called directly, one operation at a time.
NextHub ==
    \/ Subscribe /\ UNCHANGED <<callerVars, taskVars, toolVars>>
    \/ \E queue \in 1..MaxQueues : Unsubscribe(queue) /\ UNCHANGED <<callerVars, taskVars, toolVars>>
    \/ \E input \in MessageInputs : Publish(input) /\ UNCHANGED <<callerVars, taskVars, toolVars>>
    \/ \E queue \in 1..MaxQueues : QueueGet(queue) /\ UNCHANGED <<callerVars, taskVars, toolVars>>

HubSpec == Init /\ [][NextHub]_vars

\* ------------------------------------------------------ the ingestion path
\* add_packet, add_rssi and publish calls left in this behaviour.
Budget == Min(MaxInserts - npackets - nrssi, MaxPublish - Len(published))

\* A loop that runs other tasks between the two awaits of stream_updates.
EventLoopBusyIngestOnly ==
    ingest.pc # "idle"

\* A loop that runs other tasks at every await of an ingestion handler.
EventLoopBusyOpeningOnly ==
    \E s \in Sessions : sessions[s].pc = "snapshotted"

\* A handler is between two of its statements with no await that suspends:
\* the event loop runs no other task until it returns.  The locks of the
\* store and the hub are never held across an await, so acquiring them
\* never suspends.
EventLoopBusy ==
    \/ ingest.pc # "idle"
    \/ \E s \in Sessions : sessions[s].pc = "snapshotted"

\* Request bodies of POST /packets and POST /rssi at clock reading t.
IngestInputs(kind, t) ==
    IF kind = "packet"
    THEN {PacketInput(FreshTimestamp(t), Some("A")), PacketInput(StaleTimestamp(t), Some("A"))}
    ELSE {[timestamp |-> FreshTimestamp(t)]}

Batches(inputs) ==
    UNION {[1..k -> inputs] : k \in 0..MaxBatch}

\* ingest_packets / ingest_rssi is called with a list of items: accepted = 0.
IngestStart(kind, items) ==
    /\ ~EventLoopBusy
    /\ Len(items) <= Budget
    /\ ingest' = [pc |-> IF items = <<>> THEN "return" ELSE "add", kind |-> kind,
                  items |-> items, pos |-> 1, accepted |-> 0, item |-> None]
    /\ ret' = [op |-> "ingest_start", kind |-> kind, items |-> items]
    /\ UNCHANGED <<now, storeVars, hubVars, sessions, oplog, taskVars, toolVars>>

\* await store.add_packet(packet) in the loop of ingest_packets.
IngestPacketsAdd ==
    /\ ingest.pc = "add"
    /\ ingest.kind = "packet"
    /\ AddPacket(ingest.items[ingest.pos])
    /\ ingest' = [ingest EXCEPT !.pc = "publish", !.item = Some(ret'.item)]
    /\ oplog' = Append(oplog, [op |-> "insert", kind |-> "packet", item |-> ret'.item])
    /\ UNCHANGED <<sessions, taskVars, toolVars>>

\* await store.add_rssi(sample) in the loop of ingest_rssi.
IngestRssiAdd ==
    /\ ingest.pc = "add"
    /\ ingest.kind = "rssi"
    /\ AddRssi(ingest.items[ingest.pos])
    /\ ingest' = [ingest EXCEPT !.pc = "publish", !.item = Some(ret'.item)]
    /\ oplog' = Append(oplog, [op |-> "insert", kind |-> "rssi", item |-> ret'.item])
    /\ UNCHANGED <<sessions, taskVars, toolVars>>

\* A loop that sets accepted to 1 instead of adding 1 to it.
AcceptedSetToOne(frame) ==
    [frame EXCEPT !.accepted = 1,
                  !.pos = @ + 1,
                  !.pc = IF frame.pos + 1 > Len(frame.items) THEN "return" ELSE "add"]

\* The loop variable moves on: accepted += 1, then the next item or the
\* return statement.
Accepted(frame) ==
    [frame EXCEPT !.accepted = @ + 1,
                  !.pos = @ + 1,
                  !.pc = IF frame.pos + 1 > Len(frame.items) THEN "return" ELSE "add"]

\* message = StreamMessage(...); await hub.publish(message); accepted += 1
\* in the loop of ingest_packets.
IngestPacketsPublish ==
    /\ ingest.pc = "publish"
    /\ ingest.kind = "packet"
    /\ Publish(StreamMessage("packet", ModelDump(ingest.item[1])))
    /\ ingest' = Accepted(ingest)
    /\ oplog' = Append(oplog, [op |-> "publish", kind |-> ret'.message.event_type,
                               item |-> ret'.message.payload])
    /\ UNCHANGED <<sessions, taskVars, toolVars>>

\* message = StreamMessage(...); await hub.publish(message); accepted += 1
\* in the loop of ingest_rssi.
IngestRssiPublish ==
    /\ ingest.pc = "publish"
    /\ ingest.kind = "rssi"
    /\ Publish(StreamMessage("rssi", ModelDump(ingest.item[1])))
    /\ ingest' = Accepted(ingest)
    /\ oplog' = Append(oplog, [op |-> "publish", kind |-> ret'.message.event_type,
                               item |-> ret'.message.payload])
    /\ UNCHANGED <<sessions, taskVars, toolVars>>

\* return IngestResponse(accepted=accepted)
IngestReturn ==
    /\ ingest.pc = "return"
    /\ ret' = [op |-> "ingest", kind |-> ingest.kind, items |-> ingest.items,
               accepted |-> ingest.accepted]
    /\ ingest' = [pc |-> "idle", kind |-> "none", items |-> <<>>, pos |-> 0,
                  accepted |-> 0, item |-> None]
    /\ UNCHANGED <<now, storeVars, hubVars, sessions, oplog, taskVars, toolVars>>

\* ------------------------------------------------------ the stream session
\* The frame of one connection is at one of these places:
\*   idle          no request yet
\*   snapshotted   stream_updates has its initial_messages, not yet its queue
\*   created       stream_updates has returned the response; the body of
\*                 event_publisher has not started
\*   yield_replay  event_publisher is suspended at the yield of the replay loop
\*   wait          event_publisher is suspended in wait_for(queue.get())
\*   timed_out     the timeout of wait_for has passed and the pending get is
\*                 cancelled; event_publisher has not been resumed yet
\*   yield_live    event_publisher is suspended at a yield of the while loop
\*   closed        event_publisher has finished, its finally clause has run
\*   abandoned     the generator was dropped before its body started
Replaying(s) == sessions[s].pc \in {"created", "yield_replay"}

Live(s) == sessions[s].pc \in {"wait", "timed_out", "yield_live"}

Closed(s) == sessions[s].pc = "closed"

\* _format_message: the event name and the payload as JSON; a payload of
\* None is written as {}.
FormatMessage(message) ==
    <<"event", message.event_type, "data",
      IF message.payload = None THEN [f \in {} |-> None] ELSE message.payload>>

\* One more message handed to the response.  The history keeps one of a
\* run of equal heartbeats.
Emit(emitted, phase, message) ==
    LET entry == [phase |-> phase, message |-> message, chunk |-> FormatMessage(message)]
    IN IF /\ message.event_type = "heartbeat"
          /\ emitted # <<>>
          /\ emitted[Len(emitted)] = entry
       THEN emitted
       ELSE Append(emitted, entry)

\* A stream_updates that subscribes first and captures its snapshot later.
OpenSubscribingFirst(s) ==
    /\ ~EventLoopBusy
    /\ sessions[s].pc = "idle"
    /\ \A r \in Sessions : r < s => sessions[r].pc # "idle"
    /\ Subscribe
    /\ sessions' = [sessions EXCEPT ![s].pc = "snapshotted", ![s].queue = ret'.value]
    /\ UNCHANGED <<ingest, oplog, taskVars, toolVars>>

\* stream_updates: initial_messages = await store.snapshot_stream_events()
OpenSnapshot(s) ==
    /\ ~EventLoopBusy
    /\ sessions[s].pc = "idle"
    /\ \A r \in Sessions : r < s => sessions[r].pc # "idle"
    /\ Cardinality(DOMAIN queues) < MaxQueues
    /\ SnapshotStreamEvents
    /\ sessions' = [sessions EXCEPT ![s].pc = "snapshotted",
                                    ![s].initial_messages = ret'.value]
    /\ UNCHANGED <<ingest, oplog, taskVars, toolVars>>

\* stream_updates: queue = await hub.subscribe(), and the return of the
\* response around a generator that has not started.
OpenSubscribe(s) ==
    /\ sessions[s].pc = "snapshotted"
    /\ Subscribe
    /\ sessions' = [sessions EXCEPT ![s].pc = "created", ![s].queue = ret'.value]
    /\ UNCHANGED <<ingest, oplog, taskVars, toolVars>>

\* The generator is at a place from which its next statement is the next
\* pass of the replay loop.
InReplayLoop(s) == Replaying(s) /\ sessions[s].next < Len(sessions[s].initial_messages)

\* A replay loop that can be left one message before the end of the
\* snapshot.
AtLoopTopEarly(s) ==
    \/ Replaying(s) /\ sessions[s].next >= Len(sessions[s].initial_messages) - 1
    \/ sessions[s].pc = "yield_live"

\* A generator that can also be resumed into its while loop after it has
\* finished.
AtLoopTopOrFinished(s) ==
    \/ Replaying(s) /\ sessions[s].next = Len(sessions[s].initial_messages)
    \/ sessions[s].pc \in {"yield_live", "closed"}

\* The generator is at a place from which its next statement is the test
\* at the top of the while loop.
AtLoopTop(s) ==
    \/ Replaying(s) /\ sessions[s].next = Len(sessions[s].initial_messages)
    \/ sessions[s].pc = "yield_live"

\* event_publisher: the next pass of the replay loop, up to its yield.
ReplayYield(s) ==
    /\ ~EventLoopBusy
    /\ InReplayLoop(s)
    /\ LET message == sessions[s].initial_messages[sessions[s].next + 1]
       IN /\ sessions' = [sessions EXCEPT ![s].pc = "yield_replay",
                                          ![s].next = @ + 1,
                                          ![s].emitted = Emit(@, "replay", message)]
          /\ ret' = [op |-> "yield", session |-> s, message |-> message]
    /\ UNCHANGED <<now, storeVars, hubVars, ingest, oplog, taskVars, toolVars>>

\* A while loop that enters the wait without looking at the disconnect
\* signal.
LoopWaitUnpolled(s) ==
    /\ ~EventLoopBusy
    /\ AtLoopTop(s)
    /\ sessions' = [sessions EXCEPT ![s].pc = "wait"]
    /\ ret' = [op |-> "is_disconnected", session |-> s]
    /\ UNCHANGED <<now, storeVars, hubVars, ingest, oplog, taskVars, toolVars>>

\* event_publisher: request.is_disconnected() is false, and the generator
\* goes on into wait_for(queue.get(), timeout=heartbeat_interval).
LoopWait(s) ==
    /\ ~EventLoopBusy
    /\ AtLoopTop(s)
    /\ ~sessions[s].disconnected
    /\ sessions' = [sessions EXCEPT ![s].pc = "wait"]
    /\ ret' = [op |-> "is_disconnected", session |-> s]
    /\ UNCHANGED <<now, storeVars, hubVars, ingest, oplog, taskVars, toolVars>>

\* event_publisher: request.is_disconnected() is true: break, and the
\* finally clause unsubscribes.
LoopBreak(s) ==
    /\ ~EventLoopBusy
    /\ AtLoopTop(s)
    /\ sessions[s].disconnected
    /\ Unsubscribe(sessions[s].queue)
    /\ sessions' = [sessions EXCEPT ![s].pc = "closed", ![s].unsubscribes = @ + 1]
    /\ UNCHANGED <<ingest, oplog, taskVars, toolVars>>

\* event_publisher: queue.get() returns a message before the timeout; it
\* is yielded.
WaitMessage(s) ==
    /\ ~EventLoopBusy
    /\ sessions[s].pc = "wait"
    /\ QueueGet(sessions[s].queue)
    /\ sessions' = [sessions EXCEPT ![s].pc = "yield_live",
                                    ![s].emitted = Emit(@, "live", ret'.message)]
    /\ UNCHANGED <<ingest, oplog, taskVars, toolVars>>

\* A timeout that can pass though a message is on the queue.
WaitExpirePending(s) ==
    /\ ~EventLoopBusy
    /\ sessions[s].pc = "wait"
    /\ sessions' = [sessions EXCEPT ![s].pc = "timed_out"]
    /\ ret' = [op |-> "timeout", session |-> s]
    /\ UNCHANGED <<now, storeVars, hubVars, ingest, oplog, taskVars, toolVars>>

\* asyncio.wait_for: heartbeat_interval passes with the queue empty; the
\* timer callback cancels the pending queue.get() and schedules the
\* generator, which other callbacks of the event loop may precede.
WaitExpire(s) ==
    /\ ~EventLoopBusy
    /\ sessions[s].pc = "wait"
    /\ queues[sessions[s].queue] = <<>>
    /\ sessions' = [sessions EXCEPT ![s].pc = "timed_out"]
    /\ ret' = [op |-> "timeout", session |-> s]
    /\ UNCHANGED <<now, storeVars, hubVars, ingest, oplog, taskVars, toolVars>>

\* A timeout after which what is on the queue is thrown away.
WaitTimeoutDiscarding(s) ==
    /\ ~EventLoopBusy
    /\ sessions[s].pc = "timed_out"
    /\ LET heartbeat == StreamMessage("heartbeat",
                                      [timestamp |-> IsoFormat(Some(Now(now)))])
       IN /\ sessions' = [sessions EXCEPT ![s].pc = "yield_live",
                                          ![s].emitted = Emit(@, "live", heartbeat)]
          /\ ret' = [op |-> "yield", session |-> s, message |-> heartbeat]
    /\ queues' = [queues EXCEPT ![sessions[s].queue] = <<>>]
    /\ UNCHANGED <<now, storeVars, listeners, published, unsubscribed, ingest, oplog,
                   taskVars, toolVars>>

\* event_publisher: resumed with asyncio.TimeoutError, the generator
\* yields a heartbeat; what has been put on the queue meanwhile stays there.
WaitTimeout(s) ==
    /\ ~EventLoopBusy
    /\ sessions[s].pc = "timed_out"
    /\ LET heartbeat == StreamMessage("heartbeat",
                                      [timestamp |-> IsoFormat(Some(Now(now)))])
       IN /\ sessions' = [sessions EXCEPT ![s].pc = "yield_live",
                                          ![s].emitted = Emit(@, "live", heartbeat)]
          /\ ret' = [op |-> "yield", session |-> s, message |-> heartbeat]
    /\ UNCHANGED <<now, storeVars, hubVars, ingest, oplog, taskVars, toolVars>>

\* The consumer of the response goes away.
Disconnect(s) ==
    /\ ~EventLoopBusy
    /\ Replaying(s) \/ Live(s)
    /\ ~sessions[s].disconnected
    /\ sessions' = [sessions EXCEPT ![s].disconnected = TRUE]
    /\ ret' = [op |-> "disconnect", session |-> s]
    /\ UNCHANGED <<now, storeVars, hubVars, ingest, oplog, taskVars, toolVars>>

\* An exception reaches the started generator where it is suspended (the
\* response task is cancelled, sending a chunk fails, or the generator is
\* closed): the finally clause unsubscribes.
Throw(s) ==
    /\ ~EventLoopBusy
    /\ sessions[s].pc \in {"yield_replay", "wait", "timed_out", "yield_live"}
    /\ Unsubscribe(sessions[s].queue)
    /\ sessions' = [sessions EXCEPT ![s].pc = "closed", ![s].unsubscribes = @ + 1]
    /\ UNCHANGED <<ingest, oplog, taskVars, toolVars>>

\* The response is dropped after the consumer went away and before the
\* generator was started: no statement of event_publisher runs, and its
\* try block is never entered.
Abandon(s) ==
    /\ ~EventLoopBusy
    /\ sessions[s].pc = "created"
    /\ sessions[s].disconnected
    /\ sessions' = [sessions EXCEPT ![s].pc = "abandoned"]
    /\ ret' = [op |-> "abandon", session |-> s]
    /\ UNCHANGED <<now, storeVars, hubVars, ingest, oplog, taskVars, toolVars>>

\* One step of the generator of session s.
SessionStep(s) ==
    \/ ReplayYield(s)
    \/ LoopWait(s)
    \/ LoopBreak(s)
    \/ WaitMessage(s)
    \/ WaitExpire(s)
    \/ WaitTimeout(s)

\* The server with its ingestion and stream endpoints.  The clock reading
\* stays as it is: the passing of a heartbeat interval is the step
\* WaitExpire.
NextSession ==
    \/ \E kind \in {"packet", "rssi"} :
          \E items \in Batches(IngestInputs(kind, now)) : IngestStart(kind, items)
    \/ IngestPacketsAdd
    \/ IngestRssiAdd
    \/ IngestPacketsPublish
    \/ IngestRssiPublish
    \/ IngestReturn
    \/ \E s \in Sessions : OpenSnapshot(s)
    \/ \E s \in Sessions : OpenSubscribe(s)
    \/ \E s \in Sessions : ReplayYield(s)
    \/ \E s \in Sessions : LoopWait(s)
    \/ \E s \in Sessions : LoopBreak(s)
    \/ \E s \in Sessions : WaitMessage(s)
    \/ \E s \in Sessions : WaitExpire(s)
    \/ \E s \in Sessions : WaitTimeout(s)
    \/ \E s \in Sessions : Disconnect(s)
    \/ \E s \in Sessions : Throw(s)
    \/ \E s \in Sessions : Abandon(s)

SessionSpec == Init /\ [][NextSession]_vars

\* A handler that is running goes on to its next statement.
HandlerStep ==
    \/ IngestPacketsAdd
    \/ IngestRssiAdd
    \/ IngestPacketsPublish
    \/ IngestRssiPublish
    \/ IngestReturn
    \/ \E s \in Sessions : OpenSubscribe(s)

\* The event loop runs its ready tasks in the order in which they became
\* ready: a running handler goes on, and a generator that can be resumed,
\* or whose wait can end with a message or with the timeout, gets its
\* turn however many other requests are served in between.
FairSessionSpec ==
    /\ SessionSpec
    /\ WF_vars(HandlerStep)
    /\ \A s \in Sessions : SF_vars(SessionStep(s))

\* ------------------------------------------------- building the store
\* No application and no store yet.
ConstructInit ==
    /\ now = 0
    /\ config = [built |-> FALSE, retention |-> 0, max_items |-> 0]
    /\ InitHistories
    /\ InitHub
    /\ InitCallers
    /\ InitTasks
    /\ InitTool
    /\ ret = [op |-> "init"]

\* Values the environment or a caller may give for the two settings: a
\* negative one, zero, and the ones of the store under analysis.
RetentionSecondsInputs == {-SecondsPerTick, 0, Retention * SecondsPerTick}

MaxItemsInputs == {-1, 0, MaxItems}

\* AppSettings(): the Field constraints of the two history settings.
SettingsValid(settings) ==
    /\ settings.history_retention_seconds >= MinRetentionSeconds
    /\ settings.max_history_items >= MinHistoryItems

\* create_app: get_settings() raises ValidationError for settings out of
\* range, else the store is built from them.
CreateApp(settings) ==
    /\ ~config.built
    /\ config' = IF SettingsValid(settings)
                 THEN StoreConfig(settings.history_retention_seconds,
                                  settings.max_history_items)
                 ELSE config
    /\ ret' = [op |-> "create_app", settings |-> settings,
               raised |-> ~SettingsValid(settings)]
    /\ UNCHANGED <<now, packets, rssi, last_seen, npackets, nrssi, latest, last_cutoff,
                   aged, aged_rssi, hubVars, callerVars, taskVars, toolVars>>

\* InMemoryStore(retention_seconds=..., max_items=...) called directly.
NewStore(retention_seconds, max_items) ==
    /\ ~config.built
    /\ config' = StoreConfig(retention_seconds, max_items)
    /\ ret' = [op |-> "__init__", retention_seconds |-> retention_seconds,
               max_items |-> max_items, raised |-> FALSE]
    /\ UNCHANGED <<now, packets, rssi, last_seen, npackets, nrssi, latest, last_cutoff,
                   aged, aged_rssi, hubVars, callerVars, taskVars, toolVars>>

\* A store is built, by the application or directly, and then used.
NextConstruct ==
    \/ \E r \in RetentionSecondsInputs, m \in MaxItemsInputs :
          CreateApp([history_retention_seconds |-> r, max_history_items |-> m])
    \/ \E r \in RetentionSecondsInputs, m \in MaxItemsInputs : NewStore(r, m)
    \/ \E input \in PacketInputs(now) :
          config.built /\ AddPacket(input) /\ UNCHANGED <<callerVars, taskVars, toolVars>>
    \/ \E input \in RssiInputs(now) :
          config.built /\ AddRssi(input) /\ UNCHANGED <<callerVars, taskVars, toolVars>>

ConstructSpec == ConstructInit /\ [][NextConstruct]_vars

\* ------------------------------------- the store, statement by statement
\* The coroutines of InMemoryStore, one statement at a time.  Any task may
\* take its next statement at any time, and a task at `async with
\* self._lock` goes on only when the lock is free: every schedule of the
\* event loop is among these schedules, and so is every schedule in which a
\* task is suspended inside a critical section.
InsertOps == {"add_packet", "add_rssi"}

QueryOps ==
    {"get_recent_packets", "get_recent_rssi", "get_last_seen", "recent_stations",
     "snapshot_stream_events", "stats"}

\* Inserts that have been called and have not yet appended their item.
PendingInserts ==
    Cardinality({t \in Tasks : calls[t].op \in InsertOps /\ calls[t].pc = "acquire"})

\* A task calls a coroutine of the store: the frame is at `async with
\* self._lock`.
StoreCall(t, op, arg) ==
    /\ calls[t].pc = "idle"
    /\ op \in InsertOps => npackets + nrssi + PendingInserts < MaxInserts
    /\ calls' = [calls EXCEPT ![t] = [NoCall EXCEPT !.op = op, !.pc = "acquire", !.arg = arg]]
    /\ UNCHANGED <<now, storeVars, hubVars, ret, callerVars, toolVars, locks>>

\* An acquire that does not look at the lock.
LockAcquireUnchecked(t, name) ==
    /\ calls[t].pc = "acquire"
    /\ locks' = [locks EXCEPT ![name] = t]

\* asyncio.Lock.acquire: the task goes on only if no task holds the lock.
LockAcquire(t, name) ==
    /\ calls[t].pc = "acquire"
    /\ locks[name] = Free
    /\ locks' = [locks EXCEPT ![name] = t]

\* asyncio.Lock.release at the end of `async with`: the lock is locked,
\* and becomes free.
LockRelease(t, name) ==
    /\ locks[name] # Free
    /\ locks' = [locks EXCEPT ![name] = Free]

\* async with self._lock: of a store coroutine; the next statement is the
\* first one of the body.
StoreAcquire(t) ==
    /\ calls[t].op \in InsertOps \cup QueryOps
    /\ LockAcquire(t, "store")
    /\ calls' = [calls EXCEPT ![t].pc = IF calls[t].op \in InsertOps THEN "append" ELSE "read"]
    /\ UNCHANGED <<now, storeVars, hubVars, ret, callerVars, toolVars>>

\* add_packet: self._packets.append(packet)
AppendPacket(t) ==
    /\ calls[t].op = "add_packet"
    /\ calls[t].pc = "append"
    /\ LET input == calls[t].arg[1]
           packet == [id |-> npackets + 1,
                      timestamp |-> input.timestamp,
                      unix_time |-> input.unix_time,
                      source_callsign |-> input.source_callsign]
       IN /\ packets' = Append(packets, packet)
          /\ latest' = IF Truthy(packet.source_callsign)
                       THEN DictSet(latest, packet.source_callsign[1], packet)
                       ELSE latest
          /\ calls' = [calls EXCEPT ![t].pc = "index", ![t].arg = Some(packet)]
    /\ npackets' = npackets + 1
    /\ UNCHANGED <<now, rssi, last_seen, nrssi, last_cutoff, aged, aged_rssi, config,
                   hubVars, ret, callerVars, toolVars, locks>>

\* add_packet: if packet.source_callsign: self._last_seen_by_station[...] = packet
IndexPacket(t) ==
    /\ calls[t].op = "add_packet"
    /\ calls[t].pc = "index"
    /\ LET packet == calls[t].arg[1]
       IN last_seen' = IF Truthy(packet.source_callsign)
                       THEN DictSet(last_seen, packet.source_callsign[1], packet)
                       ELSE last_seen
    /\ calls' = [calls EXCEPT ![t].pc = "trim"]
    /\ UNCHANGED <<now, packets, rssi, npackets, nrssi, latest, last_cutoff, aged, aged_rssi,
                   config, hubVars, ret, callerVars, toolVars, locks>>

\* add_rssi: self._rssi.append(sample)
AppendRssi(t) ==
    /\ calls[t].op = "add_rssi"
    /\ calls[t].pc = "append"
    /\ LET sample == [id |-> nrssi + 1, timestamp |-> calls[t].arg[1].timestamp]
       IN /\ rssi' = Append(rssi, sample)
          /\ calls' = [calls EXCEPT ![t].pc = "trim", ![t].arg = Some(sample)]
    /\ nrssi' = nrssi + 1
    /\ UNCHANGED <<now, packets, last_seen, npackets, latest, last_cutoff, aged, aged_rssi,
                   config, hubVars, ret, callerVars, toolVars, locks>>

\* _trim: cutoff = _now() - self._retention, and the loop that pops stale
\* items from the head of the collection.
TrimAge(t) ==
    /\ calls[t].op \in InsertOps
    /\ calls[t].pc = "trim"
    /\ LET cutoff == Cutoff(now)
       IN /\ packets' = IF calls[t].op = "add_packet"
                        THEN AgePass(packets, cutoff, now) ELSE packets
          /\ rssi' = IF calls[t].op = "add_rssi" THEN AgePass(rssi, cutoff, now) ELSE rssi
          /\ aged' = IF calls[t].op = "add_packet"
                     THEN aged \cup (Ids(packets) \ Ids(AgePass(packets, cutoff, now)))
                     ELSE aged
          /\ aged_rssi' = IF calls[t].op = "add_rssi"
                          THEN aged_rssi \cup (Ids(rssi) \ Ids(AgePass(rssi, cutoff, now)))
                          ELSE aged_rssi
          /\ last_cutoff' = IF calls[t].op = "add_packet" THEN Some(cutoff) ELSE last_cutoff
          /\ calls' = [calls EXCEPT ![t].pc = "capacity", ![t].cutoff = Some(cutoff)]
    /\ UNCHANGED <<now, last_seen, npackets, nrssi, latest, config, hubVars, ret, callerVars, toolVars,
                   locks>>

\* _trim: the loop that pops from the head while the collection is longer
\* than max_items.
TrimCapacity(t) ==
    /\ calls[t].op \in InsertOps
    /\ calls[t].pc = "capacity"
    /\ packets' = IF calls[t].op = "add_packet" THEN CapacityPass(packets) ELSE packets
    /\ rssi' = IF calls[t].op = "add_rssi" THEN CapacityPass(rssi) ELSE rssi
    /\ calls' = [calls EXCEPT ![t].pc = IF calls[t].op = "add_packet" THEN "prune"
                                        ELSE "release"]
    /\ UNCHANGED <<now, last_seen, npackets, nrssi, latest, last_cutoff, aged, aged_rssi,
                   config, hubVars, ret, callerVars, toolVars, locks>>

\* _trim: if prune_last_seen: self._prune_last_seen(cutoff)
PruneIndex(t) ==
    /\ calls[t].op = "add_packet"
    /\ calls[t].pc = "prune"
    /\ last_seen' = PruneLastSeen(last_seen, calls[t].cutoff[1], now)
    /\ calls' = [calls EXCEPT ![t].pc = "release"]
    /\ UNCHANGED <<now, packets, rssi, npackets, nrssi, latest, last_cutoff, aged, aged_rssi,
                   config, hubVars, ret, callerVars, toolVars, locks>>

\* The body of a query coroutine: what it reads under the lock is what it
\* returns.
StoreRead(t) ==
    /\ calls[t].op \in QueryOps
    /\ calls[t].pc = "read"
    /\ CASE calls[t].op = "get_recent_packets" -> GetRecentPackets
         [] calls[t].op = "get_recent_rssi" -> GetRecentRssi
         [] calls[t].op = "get_last_seen" -> GetLastSeen
         [] calls[t].op = "recent_stations" -> RecentStations(calls[t].arg[1])
         [] calls[t].op = "snapshot_stream_events" -> SnapshotStreamEvents
         [] calls[t].op = "stats" -> Stats
    /\ calls' = [calls EXCEPT ![t].pc = "release"]
    /\ UNCHANGED <<callerVars, toolVars, locks>>

\* The end of `async with self._lock` of a store coroutine, and its return.
StoreRelease(t) ==
    /\ calls[t].op \in InsertOps \cup QueryOps
    /\ calls[t].pc = "release"
    /\ LockRelease(t, "store")
    /\ ret' = IF calls[t].op \in InsertOps
              THEN [op |-> calls[t].op, at |-> now, item |-> calls[t].arg[1],
                    cutoff |-> calls[t].cutoff[1], raised |-> FALSE]
              ELSE ret
    /\ calls' = [calls EXCEPT ![t] = NoCall]
    /\ UNCHANGED <<now, storeVars, hubVars, callerVars, toolVars>>

\* What the tasks insert: a packet dated now, a packet of another station
\* dated outside the retention window, and a sample dated now.
TaskPacketInputs(t) ==
    {PacketInput(FreshTimestamp(t), Some("A")), PacketInput(StaleTimestamp(t), Some("B"))}

TaskRssiInputs(t) == {[timestamp |-> FreshTimestamp(t)]}

\* Tasks calling the store at the same time.  The clock reading stays as
\* it is: an item is stale by its timestamp.
NextStoreTasks ==
    \/ \E t \in Tasks, input \in TaskPacketInputs(now) :
          StoreCall(t, "add_packet", Some(input))
    \/ \E t \in Tasks, input \in TaskRssiInputs(now) : StoreCall(t, "add_rssi", Some(input))
    \/ \E t \in Tasks, op \in QueryOps \ {"recent_stations"} : StoreCall(t, op, None)
    \/ \E t \in Tasks : StoreCall(t, "recent_stations", Some(Dt(now)))
    \/ \E t \in Tasks : StoreAcquire(t)
    \/ \E t \in Tasks : AppendPacket(t)
    \/ \E t \in Tasks : IndexPacket(t)
    \/ \E t \in Tasks : AppendRssi(t)
    \/ \E t \in Tasks : TrimAge(t)
    \/ \E t \in Tasks : TrimCapacity(t)
    \/ \E t \in Tasks : PruneIndex(t)
    \/ \E t \in Tasks : StoreRead(t)
    \/ \E t \in Tasks : StoreRelease(t)

StoreTasksSpec == Init /\ [][NextStoreTasks]_vars

\* --------------------------------------- the hub, statement by statement
\* The coroutines of BroadcastHub, one statement at a time, the body of
\* publish's loop being one step per queue.  Any task may take its next
\* step at any time, and a task at `async with self._lock` goes on only
\* when the lock is free.
HubOps == {"subscribe", "unsubscribe", "publish"}

\* The handles subscribe has returned to its caller.
Handles == DOMAIN queues \ {calls[t].queue : t \in Tasks}

\* subscribe is called: queue = asyncio.Queue(maxsize=512), and the frame
\* is at `async with self._lock`.
SubscribeCall(t) ==
    /\ calls[t].pc = "idle"
    /\ Cardinality(DOMAIN queues) < MaxQueues
    /\ LET queue == Cardinality(DOMAIN queues) + 1
       IN /\ queues' = [q \in DOMAIN queues \cup {queue} |->
                            IF q = queue THEN <<>> ELSE queues[q]]
          /\ calls' = [calls EXCEPT ![t] = [NoCall EXCEPT !.op = "subscribe",
                                                          !.pc = "acquire",
                                                          !.queue = queue]]
    /\ UNCHANGED <<now, storeVars, listeners, published, unsubscribed, ret, callerVars, toolVars,
                   locks>>

\* unsubscribe is called with a handle subscribe has returned, by the
\* session that owns the queue: once.
UnsubscribeCall(t, queue) ==
    /\ calls[t].pc = "idle"
    /\ queue \in Handles \ unsubscribed
    /\ \A u \in Tasks : calls[u].op = "unsubscribe" => calls[u].arg[1] # queue
    /\ calls' = [calls EXCEPT ![t] = [NoCall EXCEPT !.op = "unsubscribe",
                                                    !.pc = "acquire",
                                                    !.arg = Some(queue)]]
    /\ UNCHANGED <<now, storeVars, hubVars, ret, callerVars, toolVars, locks>>

\* The message the tasks publish: the content is the same every time, the
\* message object is a new one.
TaskMessageInput ==
    StreamMessage("rssi", ModelDump([id |-> 1, timestamp |-> Some(Dt(0))]))

\* publish is called with a message.
PublishCall(t, input) ==
    /\ calls[t].pc = "idle"
    /\ Len(published) < MaxPublish
    /\ LET message == Published(Len(published) + 1, input)
       IN /\ published' = Append(published, message)
          /\ calls' = [calls EXCEPT ![t] = [NoCall EXCEPT !.op = "publish",
                                                          !.pc = "acquire",
                                                          !.arg = Some(message)]]
    /\ UNCHANGED <<now, storeVars, listeners, queues, unsubscribed, ret, callerVars, toolVars, locks>>

\* async with self._lock: of a hub coroutine.
HubAcquire(t) ==
    /\ calls[t].op \in HubOps
    /\ LockAcquire(t, "hub")
    /\ calls' = [calls EXCEPT ![t].pc = "body"]
    /\ UNCHANGED <<now, storeVars, hubVars, ret, callerVars, toolVars>>

\* subscribe: self._listeners.add(queue)
SubscribeAdd(t) ==
    /\ calls[t].op = "subscribe"
    /\ calls[t].pc = "body"
    /\ listeners' = listeners \cup {calls[t].queue}
    /\ calls' = [calls EXCEPT ![t].pc = "release"]
    /\ UNCHANGED <<now, storeVars, queues, published, unsubscribed, ret, callerVars, toolVars, locks>>

\* unsubscribe: self._listeners.discard(queue)
UnsubscribeDiscard(t) ==
    /\ calls[t].op = "unsubscribe"
    /\ calls[t].pc = "body"
    /\ listeners' = SetDiscard(listeners, calls[t].arg[1]).set
    /\ calls' = [calls EXCEPT ![t].pc = "release"]
    /\ UNCHANGED <<now, storeVars, queues, published, unsubscribed, ret, callerVars, toolVars, locks>>

\* publish: listeners = list(self._listeners), in any order.
PublishCopy(t) ==
    /\ calls[t].op = "publish"
    /\ calls[t].pc = "body"
    /\ \E order \in Orders(listeners) :
          calls' = [calls EXCEPT ![t].pc = "release",
                                 ![t].copy = listeners,
                                 ![t].listeners = order]
    /\ UNCHANGED <<now, storeVars, hubVars, ret, callerVars, toolVars, locks>>

\* The end of `async with self._lock` of a hub coroutine: subscribe and
\* unsubscribe return, publish goes on to its loop.
HubRelease(t) ==
    /\ calls[t].op \in HubOps
    /\ calls[t].pc = "release"
    /\ LockRelease(t, "hub")
    /\ calls' = [calls EXCEPT ![t] = IF calls[t].op = "publish"
                                     THEN [calls[t] EXCEPT !.pc = "deliver"]
                                     ELSE NoCall]
    /\ ret' = CASE calls[t].op = "subscribe" -> [op |-> "subscribe", value |-> calls[t].queue]
                [] calls[t].op = "unsubscribe" ->
                      [op |-> "unsubscribe", queue |-> calls[t].arg[1], raised |-> FALSE,
                       registered |-> calls[t].arg[1] \in listeners,
                       again |-> calls[t].arg[1] \in unsubscribed]
                [] OTHER -> ret
    /\ unsubscribed' = IF calls[t].op = "unsubscribe"
                       THEN unsubscribed \cup {calls[t].arg[1]}
                       ELSE unsubscribed
    /\ UNCHANGED <<now, storeVars, listeners, queues, published, callerVars, toolVars>>

\* A loop that walks the set of listeners as it is now instead of the
\* copy.
PublishDeliverLive(t) ==
    /\ calls[t].op = "publish"
    /\ calls[t].pc = "deliver"
    /\ calls[t].listeners # <<>>
    /\ \E queue \in listeners \ (calls[t].delivered \cup calls[t].skipped) :
          LET out == DeliverOutcome(queues[queue], calls[t].arg[1])
          IN /\ queues' = [queues EXCEPT ![queue] = out.queue]
             /\ calls' = [calls EXCEPT
                   ![t].listeners = Tail(@),
                   ![t].delivered = IF out.skipped THEN @ ELSE @ \cup {queue},
                   ![t].skipped = IF out.skipped THEN @ \cup {queue} ELSE @]
    /\ UNCHANGED <<now, storeVars, listeners, published, unsubscribed, ret, callerVars, toolVars,
                   locks>>

\* publish: one pass of `for queue in listeners`: put_nowait, and on
\* QueueFull drop the oldest item and put again, or skip.
PublishDeliver(t) ==
    /\ calls[t].op = "publish"
    /\ calls[t].pc = "deliver"
    /\ calls[t].listeners # <<>>
    /\ LET queue == Head(calls[t].listeners)
           out == DeliverOutcome(queues[queue], calls[t].arg[1])
       IN /\ queues' = [queues EXCEPT ![queue] = out.queue]
          /\ calls' = [calls EXCEPT
                ![t].listeners = Tail(@),
                ![t].delivered = IF out.skipped THEN @ ELSE @ \cup {queue},
                ![t].skipped = IF out.skipped THEN @ \cup {queue} ELSE @]
    /\ UNCHANGED <<now, storeVars, listeners, published, unsubscribed, ret, callerVars, toolVars,
                   locks>>

\* publish: the loop is over, and publish returns.
PublishReturn(t) ==
    /\ calls[t].op = "publish"
    /\ calls[t].pc = "deliver"
    /\ calls[t].listeners = <<>>
    /\ ret' = [op |-> "publish", input |-> StreamMessage(calls[t].arg[1].event_type,
                                                         calls[t].arg[1].payload),
               message |-> calls[t].arg[1], overflowed |-> calls[t].skipped,
               raised |-> FALSE, skipped |-> calls[t].skipped]
    /\ calls' = [calls EXCEPT ![t] = NoCall]
    /\ UNCHANGED <<now, storeVars, hubVars, callerVars, toolVars, locks>>

\* Tasks calling the hub at the same time, and the consumers of the queues.
NextHubTasks ==
    \/ \E t \in Tasks : SubscribeCall(t)
    \/ \E t \in Tasks, queue \in 1..MaxQueues : UnsubscribeCall(t, queue)
    \/ \E t \in Tasks : PublishCall(t, TaskMessageInput)
    \/ \E t \in Tasks : HubAcquire(t)
    \/ \E t \in Tasks : SubscribeAdd(t)
    \/ \E t \in Tasks : UnsubscribeDiscard(t)
    \/ \E t \in Tasks : PublishCopy(t)
    \/ \E t \in Tasks : HubRelease(t)
    \/ \E t \in Tasks : PublishDeliver(t)
    \/ \E t \in Tasks : PublishReturn(t)
    \/ \E queue \in 1..MaxQueues : QueueGet(queue) /\ UNCHANGED <<callerVars, taskVars, toolVars>>

HubTasksSpec == Init /\ [][NextHubTasks]_vars

\* ------------------------------------------- the effective datetime alone
\* Zone offsets of an aware timestamp, in clock units: west of UTC, UTC,
\* east of UTC.
ZoneOffsets == {-1, 0, 1}

\* Values of an Optional[datetime] field: None, a naive reading, an aware
\* reading in one of the zones.
TimestampInputs ==
    {None} \cup {Some([wall |-> w, tz |-> z]) :
                    w \in 0..MaxTime, z \in {None} \cup {Some(o) : o \in ZoneOffsets}}

\* Values of PacketEvent.unix_time: None or epoch seconds (ge=0).
UnixTimeInputs == {None} \cup {Some(u) : u \in 0..MaxTime}

\* The events whose effective_datetime is read.
EventInputs ==
    {[timestamp |-> ts, unix_time |-> u, source_callsign |-> None] :
        ts \in TimestampInputs, u \in UnixTimeInputs}
    \cup {[timestamp |-> ts] : ts \in TimestampInputs}

\* An event has been validated, at some clock reading, and nothing else has
\* happened.
DatetimeInit ==
    /\ now \in 0..MaxTime
    /\ InitStore
    /\ InitHub
    /\ InitCallers
    /\ InitTasks
    /\ InitTool
    /\ ret \in {[op |-> "input", item |-> item] : item \in EventInputs}

\* packet.effective_datetime is read.
PacketEffectiveDatetimeRead ==
    /\ ret.op = "input"
    /\ "unix_time" \in DOMAIN ret.item
    /\ ret' = [op |-> "effective_datetime", item |-> ret.item, at |-> now,
               value |-> PacketEffectiveDatetime(ret.item, now)]
    /\ UNCHANGED <<now, storeVars, hubVars, callerVars, taskVars, toolVars>>

\* sample.effective_datetime is read.
RssiEffectiveDatetimeRead ==
    /\ ret.op = "input"
    /\ "unix_time" \notin DOMAIN ret.item
    /\ ret' = [op |-> "effective_datetime", item |-> ret.item, at |-> now,
               value |-> RssiEffectiveDatetime(ret.item, now)]
    /\ UNCHANGED <<now, storeVars, hubVars, callerVars, taskVars, toolVars>>

NextDatetime ==
    \/ PacketEffectiveDatetimeRead
    \/ RssiEffectiveDatetimeRead

DatetimeSpec == DatetimeInit /\ [][NextDatetime]_vars

\* ------------------------------------------------- the posting tools
\* max(a, b)
Max(a, b) == IF a >= b THEN a ELSE b

\* Python truthiness of an Optional[int] (args.count).
TruthyInt(n) == n # None /\ n[1] # 0

\* The items the tools hand on are numbered in the order they are read.
Item(n) == n

\* The loop a frame goes back to after the batch has been looked at.
LoopPlace(frame) == IF frame.kind = "direwolf_csv_tail" THEN "rows" ELSE "samples"

\* main() of direwolf_csv_tail.py has parsed its arguments and opened the
\* client: --post-url given or not, any --batch-size, a log with or
\* without a header line.
CsvTailStarted ==
    {[NoTool EXCEPT !.kind = "direwolf_csv_tail", !.pc = "rows", !.posting = posting,
                    !.batch_size = batch_size, !.header = header] :
        posting \in BOOLEAN, batch_size \in 0..MaxBatch, header \in BOOLEAN}

\* main() of rtl_power_monitor.py has parsed its arguments and opened the
\* client: --post-url given or not, any --batch-size, --count given or
\* omitted.
RtlPowerStarted ==
    {[NoTool EXCEPT !.kind = "rtl_power_monitor", !.pc = "loop_top", !.posting = posting,
                    !.batch_size = batch_size, !.count = count] :
        posting \in BOOLEAN, batch_size \in 0..MaxBatch,
        count \in {None} \cup {Some(n) : n \in 0..MaxCount}}

\* A tool is at the top of its loop with an empty batch; the server is not
\* part of this specification.
ToolInit ==
    /\ now = 0
    /\ InitStore
    /\ InitHub
    /\ InitCallers
    /\ InitTasks
    /\ ret = [op |-> "init"]
    /\ tool \in CsvTailStarted \cup RtlPowerStarted

\* What no step of a tool changes.
ToolFrame == UNCHANGED <<now, storeVars, hubVars, ret, callerVars, taskVars>>

\* batch.append(item) when client and post_url, and on to the test of the
\* batch length.
Collect(frame) ==
    LET read == [frame EXCEPT !.produced = @ + 1]
    IN IF frame.posting
       THEN [read EXCEPT !.batch = Append(@, Item(frame.produced + 1)), !.pc = "appended"]
       ELSE read

\* direwolf_csv_tail: iter_csv_records yields the next row, which is
\* normalised, printed and collected.
CsvRow ==
    /\ tool.kind = "direwolf_csv_tail"
    /\ tool.pc = "rows"
    /\ tool.header
    /\ tool.produced < MaxRows
    /\ tool' = Collect(tool)
    /\ ToolFrame

\* direwolf_csv_tail: the log has no header line, iter_csv_records returns
\* at once and the for loop ends.
CsvRowsEnd ==
    /\ tool.kind = "direwolf_csv_tail"
    /\ tool.pc = "rows"
    /\ ~tool.header
    /\ tool' = [tool EXCEPT !.pc = "flush"]
    /\ ToolFrame

\* rtl_power_monitor: one run of rtl_power, with any exit status, and the
\* samples parsed from what it printed, none included.
RunRtlPower(returncode, samples) ==
    /\ tool.kind = "rtl_power_monitor"
    /\ tool.pc = "loop_top"
    /\ Len(tool.runs) < MaxRuns
    /\ tool' = [tool EXCEPT !.pc = "samples", !.pending = samples,
                            !.runs = Append(@, [returncode |-> returncode,
                                                samples |-> samples])]
    /\ ToolFrame

\* rtl_power_monitor: the next sample of the run is printed and collected.
NextSample ==
    /\ tool.kind = "rtl_power_monitor"
    /\ tool.pc = "samples"
    /\ tool.pending > 0
    /\ tool' = Collect([tool EXCEPT !.pending = @ - 1])
    /\ ToolFrame

\* An end of run that breaks one run late.
EndRunLate ==
    /\ tool.kind = "rtl_power_monitor"
    /\ tool.pc = "samples"
    /\ tool.pending = 0
    /\ tool' = [tool EXCEPT !.iterations = @ + 1,
                            !.pc = IF TruthyInt(tool.count)
                                      /\ tool.iterations + 1 > tool.count[1]
                                   THEN "flush" ELSE "loop_top"]
    /\ ToolFrame

\* rtl_power_monitor: the samples of the run are done: iterations += 1,
\* break if args.count and iterations >= args.count, else sleep and go on.
EndRun ==
    /\ tool.kind = "rtl_power_monitor"
    /\ tool.pc = "samples"
    /\ tool.pending = 0
    /\ tool' = [tool EXCEPT !.iterations = @ + 1,
                            !.pc = IF TruthyInt(tool.count)
                                      /\ tool.iterations + 1 >= tool.count[1]
                                   THEN "flush" ELSE "loop_top"]
    /\ ToolFrame

\* len(batch) >= max(1, args.batch_size)
BatchFull(frame) == Len(frame.batch) >= Max(1, frame.batch_size)

\* The batch is not full yet: the loop goes on.
BatchKept ==
    /\ tool.pc = "appended"
    /\ ~BatchFull(tool)
    /\ tool' = [tool EXCEPT !.pc = LoopPlace(tool)]
    /\ ToolFrame

\* The batch is full: post_packets / post_samples returns or raises an
\* Exception, which is logged; finally batch.clear(), and the loop goes on.
PostBatch(ok) ==
    /\ tool.pc = "appended"
    /\ BatchFull(tool)
    /\ tool' = [tool EXCEPT !.posts = Append(@, [items |-> tool.batch, at |-> "loop",
                                                 ok |-> ok]),
                            !.batch = <<>>,
                            !.pc = LoopPlace(tool)]
    /\ ToolFrame

\* KeyboardInterrupt while the full batch is being posted: finally
\* batch.clear(), and return 130.
PostInterrupted ==
    /\ tool.pc = "appended"
    /\ BatchFull(tool)
    /\ tool' = [tool EXCEPT !.posts = Append(@, [items |-> tool.batch, at |-> "loop",
                                                 ok |-> FALSE]),
                            !.batch = <<>>,
                            !.pc = "done",
                            !.exit = Some(130)]
    /\ ToolFrame

\* KeyboardInterrupt while the loop runs: return 130.
Interrupt ==
    /\ tool.pc \in {"rows", "loop_top", "samples", "appended"}
    /\ tool' = [tool EXCEPT !.pc = "done", !.exit = Some(130)]
    /\ ToolFrame

\* An Exception leaves the loop (rtl_power cannot be started, the log
\* cannot be read): it is logged, return 1.
Crash ==
    /\ tool.pc \in {"rows", "loop_top"}
    /\ tool' = [tool EXCEPT !.pc = "done", !.exit = Some(1)]
    /\ ToolFrame

\* After the loop: if batch and post_url, the batch is posted once, the
\* outcome is logged; return 0.
Flush(ok) ==
    /\ tool.pc = "flush"
    /\ tool' = [tool EXCEPT !.posts = IF tool.batch # <<>> /\ tool.posting
                                      THEN Append(@, [items |-> tool.batch, at |-> "flush",
                                                      ok |-> ok])
                                      ELSE @,
                            !.pc = "done",
                            !.exit = Some(0)]
    /\ ToolFrame

\* What main() does when nothing stops it from outside.
ToolStep ==
    \/ CsvRow
    \/ CsvRowsEnd
    \/ \E returncode \in {0, 1}, samples \in 0..MaxSamples : RunRtlPower(returncode, samples)
    \/ NextSample
    \/ EndRun
    \/ BatchKept
    \/ \E ok \in BOOLEAN : PostBatch(ok)
    \/ \E ok \in BOOLEAN : Flush(ok)

NextTool ==
    \/ CsvRow
    \/ CsvRowsEnd
    \/ \E returncode \in {0, 1}, samples \in 0..MaxSamples : RunRtlPower(returncode, samples)
    \/ NextSample
    \/ EndRun
    \/ BatchKept
    \/ \E ok \in BOOLEAN : PostBatch(ok)
    \/ PostInterrupted
    \/ Interrupt
    \/ Crash
    \/ \E ok \in BOOLEAN : Flush(ok)

ToolSpec == ToolInit /\ [][NextTool]_vars

\* The interpreter goes on with the next statement of main().
FairToolSpec == ToolSpec /\ WF_vars(ToolStep)

\* ------------------------------------------------------------ the claims
\* Helpers of the claims' formulas.
PacketMessages(messages) == {j \in DOMAIN messages : messages[j].event_type = "packet"}

RssiMessages(messages) == {j \in DOMAIN messages : messages[j].event_type = "rssi"}

\* The item a dumped payload was made from.
UnDump(payload) ==
    [f \in DOMAIN payload |-> IF f = "timestamp" THEN FromIso(payload.timestamp) ELSE payload[f]]

MessageEffective(message, t) == EffectiveDatetime(UnDump(message.payload), t)

\* C1: after every insert each history holds at most max_items items, and
\* no read (get_recent_packets, get_recent_rssi, stats,
\* snapshot_stream_events) reports a history larger than max_items.
C1_HistoryBounded ==
    /\ Len(packets) <= MaxItems
    /\ Len(rssi) <= MaxItems
    /\ ret.op = "get_recent_packets" => Len(ret.value) <= MaxItems
    /\ ret.op = "get_recent_rssi" => Len(ret.value) <= MaxItems
    /\ ret.op = "stats" =>
          ret.value.packets <= MaxItems /\ ret.value.rssi_samples <= MaxItems
    /\ ret.op = "snapshot_stream_events" =>
          /\ Cardinality(PacketMessages(ret.value)) <= MaxItems
          /\ Cardinality(RssiMessages(ret.value)) <= MaxItems

\* C1 witness: more packets than max_items were inserted, the history is
\* full and a read reports exactly max_items of them.
C1_Witness ==
    /\ ret.op = "get_recent_packets"
    /\ npackets > MaxItems
    /\ Len(ret.value) = MaxItems

\* C2: right after an insert returns, no item retained in the history that
\* was inserted into is older than the cutoff (now - retention) of that
\* insert, whatever the order the timestamps arrive in.
C2_NoStaleItemAfterInsert ==
    /\ ret.op = "add_packet" =>
          \A i \in DOMAIN packets : ~IsStale(packets[i], ret.cutoff, ret.at)
    /\ ret.op = "add_rssi" =>
          \A i \in DOMAIN rssi : ~IsStale(rssi[i], ret.cutoff, ret.at)

C4_IndexWithinHistory ==
    \A c \in DOMAIN last_seen : \E i \in DOMAIN packets : packets[i] = last_seen[c]

\* C4 as amended: no packet that the age pass has evicted from the packet
\* history is held in the index or returned by get_last_seen or
\* recent_stations (a packet evicted by the capacity pass may be).
C4_IndexNotAgedOut ==
    /\ \A c \in DOMAIN last_seen : last_seen[c].id \notin aged
    /\ ret.op \in {"get_last_seen", "recent_stations"} =>
          \A c \in DOMAIN ret.value : ret.value[c].id \notin aged

\* C4 witness: the latest packet of a station has been evicted by the age
\* pass and the station is no longer in the index, while the index still
\* holds another packet.
C4_Witness ==
    /\ \E c \in DOMAIN latest : latest[c].id \in aged /\ c \notin DOMAIN last_seen
    /\ DOMAIN last_seen # {}

\* C5: snapshot_stream_events returns a list that is non-decreasing by
\* effective_datetime, as long as the two histories together, and holding
\* every retained packet and sample exactly once.
C5_SnapshotSortedComplete ==
    ret.op = "snapshot_stream_events" =>
        /\ \A j \in 1..(Len(ret.value) - 1) :
              ~DtLess(MessageEffective(ret.value[j + 1], ret.at),
                      MessageEffective(ret.value[j], ret.at))
        /\ Len(ret.value) = Len(packets) + Len(rssi)
        /\ \A i \in DOMAIN packets :
              Cardinality({j \in PacketMessages(ret.value) :
                              ret.value[j].payload = ModelDump(packets[i])}) = 1
        /\ \A i \in DOMAIN rssi :
              Cardinality({j \in RssiMessages(ret.value) :
                              ret.value[j].payload = ModelDump(rssi[i])}) = 1

\* C5 witness: a snapshot of a store holding a packet and an older sample,
\* which the sort has moved in front of the packet.
C5_Witness ==
    /\ ret.op = "snapshot_stream_events"
    /\ packets # <<>>
    /\ rssi # <<>>
    /\ ret.value[1].event_type = "rssi"
    /\ DtLess(MessageEffective(ret.value[1], ret.at),
              MessageEffective(ret.value[Len(ret.value)], ret.at))

\* The entries of the index dated at or after `since`, clock reading t.
EntriesSince(since, t) ==
    {c \in DOMAIN last_seen :
        Instant(PacketEffectiveDatetime(last_seen[c], t)) >= Instant(since)}

\* The only packet inserted so far names station c and carries an explicit
\* timestamp later than `since`.
FirstPacketOf(c, since) ==
    /\ npackets = 1
    /\ c \in DOMAIN latest
    /\ latest[c].timestamp # None
    /\ Instant(since) < Instant(EnsureUtc(latest[c].timestamp[1]))

\* C8 as claimed, its scenario: after one packet with source S and
\* timestamp T has been inserted into an empty store, recent_stations with
\* a cutoff before T returns exactly {S: that packet}, whatever T is.
C8_ScenarioAnyTimestamp ==
    ret.op = "recent_stations" =>
        \A c \in DOMAIN latest :
            FirstPacketOf(c, ret.since) =>
                DOMAIN ret.value = {c} /\ ret.value[c] = latest[c]

\* C8 as amended: recent_stations(since) returns exactly the entries of the
\* index whose packet has effective_datetime >= since, boundary included,
\* and leaves the index as it was; after one packet with source S and
\* timestamp T not older than the cutoff of its own insert has been inserted
\* into an empty store, recent_stations with a cutoff before T returns
\* exactly {S: that packet}.
C8_StationsSinceExact ==
    [][ret'.op = "recent_stations" =>
          /\ last_seen' = last_seen
          /\ DOMAIN ret'.value = EntriesSince(ret'.since, ret'.at)
          /\ \A c \in DOMAIN ret'.value : ret'.value[c] = last_seen[c]
          /\ \A c \in DOMAIN latest :
                (/\ FirstPacketOf(c, ret'.since)
                 /\ ~DtLess(EnsureUtc(latest[c].timestamp[1]), last_cutoff[1]))
                    => DOMAIN ret'.value = {c} /\ ret'.value[c] = latest[c]]_vars

\* C8 witness: recent_stations has returned an entry dated exactly `since`
\* and left out an older one; the first case of the scenario is the state
\* C8_ScenarioWitness.
C8_Witness ==
    /\ ret.op = "recent_stations"
    /\ \E c \in DOMAIN ret.value :
          Instant(PacketEffectiveDatetime(ret.value[c], ret.at)) = Instant(ret.since)
    /\ DOMAIN last_seen \ DOMAIN ret.value # {}

\* The scenario of C8 with a fresh packet: one packet, one station returned.
C8_ScenarioWitness ==
    /\ ret.op = "recent_stations"
    /\ \E c \in DOMAIN latest :
          /\ FirstPacketOf(c, ret.since)
          /\ ~DtLess(EnsureUtc(latest[c].timestamp[1]), last_cutoff[1])
          /\ DOMAIN ret.value = {c}

\* The ids n-k+1 .. n, in order.
LastIds(n, k) == [i \in 1..k |-> n - k + i]

IdsInOrder(collection) == [i \in DOMAIN collection |-> collection[i].id]

\* C9: as long as the age pass has evicted nothing from a history (which is
\* so when every inserted item is inside the retention window), after n
\* inserts the history is exactly the last min(n, max_items) inserted items
\* in insertion order, the newest being the item just inserted.
C9_LastInsertedKept ==
    /\ aged = {} => IdsInOrder(packets) = LastIds(npackets, Min(npackets, MaxItems))
    /\ aged_rssi = {} => IdsInOrder(rssi) = LastIds(nrssi, Min(nrssi, MaxItems))
    /\ (ret.op = "add_packet" /\ aged = {}) => packets[Len(packets)] = ret.item
    /\ (ret.op = "add_rssi" /\ aged_rssi = {}) => rssi[Len(rssi)] = ret.item

\* C9 witness: max_items + 1 samples, all with fresh explicit timestamps,
\* have been inserted: the first one is gone although it is not stale.
C9_Witness ==
    /\ ret.op = "add_rssi"
    /\ nrssi = MaxItems + 1
    /\ aged_rssi = {}
    /\ Len(rssi) = MaxItems
    /\ \A i \in DOMAIN rssi :
          rssi[i].timestamp # None /\ ~IsStale(rssi[i], ret.cutoff, ret.at)
    /\ rssi[1].id = 2

\* A step of publish, and the message it published.
PublishStep == Len(published') = Len(published) + 1

NewMessage == published'[Len(published')]

\* C6: when publish(m) runs, a registered queue that already holds
\* QueueMaxsize messages holds QueueMaxsize messages afterwards, no longer
\* contains its previous oldest message, keeps its other messages in order
\* and has m as its newest; every registered queue that is not full gets m
\* appended and loses nothing.
C6_DropOldestOnFull ==
    [][PublishStep =>
          \A q \in listeners :
              IF Len(queues[q]) = QueueMaxsize
              THEN /\ Len(queues'[q]) = QueueMaxsize
                   /\ \A i \in DOMAIN queues'[q] : queues'[q][i] # queues[q][1]
                   /\ SubSeq(queues'[q], 1, QueueMaxsize - 1) = Tail(queues[q])
                   /\ queues'[q][QueueMaxsize] = NewMessage
              ELSE queues'[q] = Append(queues[q], NewMessage)]_vars

\* C6 witness: a publish has found one registered queue full and another
\* one not full.
C6_Witness ==
    /\ ret.op = "publish"
    /\ \E q1 \in ret.overflowed : \E q2 \in listeners \ ret.overflowed :
          /\ Len(queues[q1]) = QueueMaxsize
          /\ queues[q1][QueueMaxsize] = ret.message
          /\ queues[q2][Len(queues[q2])] = ret.message

\* C7: once unsubscribe(handle) has returned, no publish enqueues anything
\* on that handle's queue; unsubscribe raises nothing, and a second
\* unsubscribe of the same handle leaves the registered set unchanged.
C7_UnsubscribedGetsNothing ==
    [][/\ PublishStep => \A q \in unsubscribed : queues'[q] = queues[q]
       /\ ret'.op = "unsubscribe" =>
             /\ ~ret'.raised
             /\ ret'.queue \notin listeners'
             /\ ret'.again => listeners' = listeners]_vars

\* C7 witness: a handle has been unsubscribed, a message has been published
\* and reached another queue but not that handle's, and the handle has then
\* been unsubscribed a second time.
C7_Witness ==
    /\ ret.op = "unsubscribe"
    /\ ret.again
    /\ published # <<>>
    /\ \A i \in DOMAIN queues[ret.queue] :
          queues[ret.queue][i] # published[Len(published)]
    /\ \E q \in listeners : \E i \in DOMAIN queues[q] :
          queues[q][i] = published[Len(published)]

\* The ids of a queue's messages grow from its head to its tail: the
\* messages lie in the order publish enqueued them, none twice.
InPublishOrder(queue) ==
    \A i, j \in DOMAIN queue : i < j => queue[i].id < queue[j].id

\* C10: a message published while a queue is registered and not full is
\* appended at the tail of that queue, once and with the event_type and
\* payload it was published with; every queue holds its messages in the
\* order they were enqueued and a read takes the oldest, so that subscribe,
\* publish(m), read yields m.
C10_PublishedIsDelivered ==
    [][/\ PublishStep =>
             /\ NewMessage.event_type = ret'.input.event_type
             /\ NewMessage.payload = ret'.input.payload
             /\ \A q \in listeners :
                   ~Full(queues[q]) => queues'[q] = Append(queues[q], NewMessage)
       /\ \A q \in DOMAIN queues' : InPublishOrder(queues'[q])
       /\ (ret'.op = "queue_get" /\ queues' # queues) =>
             /\ ret'.message = Head(queues[ret'.queue])
             /\ ret'.message = published[ret'.message.id]
             /\ queues'[ret'.queue] = Tail(queues[ret'.queue])
             /\ Len(published) = 1 => ret'.message = published[1]]_vars

\* C10 witness: subscribe, one publish, one read: the read has returned the
\* published message.
C10_Witness ==
    /\ ret.op = "queue_get"
    /\ Len(published) = 1
    /\ ret.message = published[1]
    /\ ret.queue \in listeners
    /\ queues[ret.queue] = <<>>

ReadOps ==
    {"get_recent_packets", "get_recent_rssi", "get_last_seen", "recent_stations",
     "snapshot_stream_events", "stats"}

\* C11: the six query operations leave both histories and the last-seen
\* index as they were, and what stats returned stays equal to the store's
\* counts until the next insert, so that consecutive stats calls with no
\* insert in between return identical values.
C11_ReadsChangeNothing ==
    [][/\ ret'.op \in ReadOps =>
             packets' = packets /\ rssi' = rssi /\ last_seen' = last_seen
       /\ ret'.op = "stats" =>
             ret'.value = [packets |-> Len(packets'),
                           rssi_samples |-> Len(rssi'),
                           stations_tracked |-> Cardinality(DOMAIN last_seen')]
       /\ (ret.op = "stats" /\ ret'.op = "stats") => ret'.value = ret.value]_vars

\* C11 witness: stats has returned at a time when the packet history holds
\* an item older than the cutoff, and the item is still there.
C11_Witness ==
    /\ ret.op = "stats"
    /\ ret.value.packets = Len(packets)
    /\ \E i \in DOMAIN packets : IsStale(packets[i], Cutoff(ret.at), ret.at)

\* How far a session has come: not started, REPLAYING, LIVE, and ended
\* (CLOSED, or dropped before its generator started).
PhaseRank(s) ==
    IF sessions[s].pc \in {"idle", "snapshotted"} THEN 0
    ELSE IF Replaying(s) THEN 1
    ELSE IF Live(s) THEN 2
    ELSE 3

\* C12: a session only moves forward through REPLAYING, LIVE, CLOSED: no
\* step takes it from LIVE back to REPLAYING or from REPLAYING back to not
\* started, a session that has ended stays exactly as it is, and in
\* particular its emitted messages never grow after CLOSED.
C12_PhasesOnlyForward ==
    [][\A s \in Sessions :
          /\ PhaseRank(s)' >= PhaseRank(s)
          /\ PhaseRank(s) = 3 =>
                /\ sessions'[s].pc = sessions[s].pc
                /\ sessions'[s].emitted = sessions[s].emitted]_vars

C12_Witness ==
    \E s \in Sessions :
        /\ Closed(s)
        /\ \E i \in DOMAIN sessions[s].emitted : sessions[s].emitted[i].phase = "replay"
        /\ \E i \in DOMAIN sessions[s].emitted : sessions[s].emitted[i].phase = "live"
        /\ Len(published) > 0

\* The places of a session's emitted history that hold a message taken
\* from its queue (not a replayed one, not a heartbeat).
LiveMessages(s) ==
    {i \in DOMAIN sessions[s].emitted :
        /\ sessions[s].emitted[i].phase = "live"
        /\ sessions[s].emitted[i].message.event_type # "heartbeat"}

\* C13: in the emitted history of a session no replay message comes after
\* a live message or a heartbeat, every live message is one the hub
\* published, and the live messages appear in the order of their
\* publication (a subsequence of the publish sequence).
C13_ReplayThenPublishOrder ==
    \A s \in Sessions :
        LET emitted == sessions[s].emitted
        IN /\ \A i, j \in DOMAIN emitted :
                 (i < j /\ emitted[j].phase = "replay") => emitted[i].phase = "replay"
           /\ \A i \in LiveMessages(s) :
                 /\ emitted[i].message.id \in DOMAIN published
                 /\ published[emitted[i].message.id] = emitted[i].message
           /\ \A i, j \in LiveMessages(s) :
                 i < j => emitted[i].message.id < emitted[j].message.id

C13_Witness ==
    \E s \in Sessions :
        /\ \E i \in DOMAIN sessions[s].emitted : sessions[s].emitted[i].phase = "replay"
        /\ \E i, j \in LiveMessages(s) :
              /\ i + 1 < j
              /\ sessions[s].emitted[i + 1].message.event_type = "heartbeat"

\* The messages of a session's emitted history that were emitted by the
\* replay loop, in the order of their emission.
RECURSIVE Replayed(_)
Replayed(emitted) ==
    IF emitted = <<>> THEN <<>>
    ELSE LET rest == Replayed(SubSeq(emitted, 1, Len(emitted) - 1))
             last == emitted[Len(emitted)]
         IN IF last.phase = "replay" THEN Append(rest, last.message) ELSE rest

\* C14: what a session has replayed is always a prefix of the snapshot it
\* captured, message for message (each once, in snapshot order); once the
\* session is LIVE or has emitted anything live, the prefix is the whole
\* snapshot; and when the snapshot has just been captured it holds one
\* message per retained packet, of kind packet, and one per retained
\* sample, of kind rssi, and nothing else.
C14_ReplayIsTheSnapshot ==
    \A s \in Sessions :
        LET f == sessions[s]
        IN /\ f.next <= Len(f.initial_messages)
           /\ Replayed(f.emitted) = SubSeq(f.initial_messages, 1, f.next)
           /\ (Live(s) \/ \E i \in DOMAIN f.emitted : f.emitted[i].phase = "live")
                 => f.next = Len(f.initial_messages)
           /\ f.pc = "snapshotted" =>
                 /\ Len(f.initial_messages) = Len(packets) + Len(rssi)
                 /\ \A i \in DOMAIN packets :
                       \E j \in DOMAIN f.initial_messages :
                          f.initial_messages[j] =
                             StreamMessage("packet", ModelDump(packets[i]))
                 /\ \A i \in DOMAIN rssi :
                       \E j \in DOMAIN f.initial_messages :
                          f.initial_messages[j] = StreamMessage("rssi", ModelDump(rssi[i]))

C14_Witness ==
    \E s \in Sessions :
        /\ Live(s)
        /\ Len(sessions[s].initial_messages) >= 2
        /\ PacketMessages(sessions[s].initial_messages) # {}
        /\ RssiMessages(sessions[s].initial_messages) # {}
        /\ Replayed(sessions[s].emitted) = sessions[s].initial_messages

\* The session has ended: its generator has finished, or it was dropped
\* before it started.
Ended(s) == sessions[s].pc \in {"closed", "abandoned"}

\* C15: every session that has ended after registering a queue has
\* executed unsubscribe exactly once, and its queue is no longer in the
\* hub's set of listeners.
C15_UnsubscribedOnceWhenEnded ==
    \A s \in Sessions :
        Ended(s) =>
            /\ sessions[s].unsubscribes = 1
            /\ sessions[s].queue \notin listeners

\* C16: a session whose consumer has disconnected while it waits in LIVE
\* leaves the wait only for CLOSED, and emits nothing on the way: no step
\* takes it from the wait to a yield of a queue message or of a heartbeat.
C16_DisconnectEndsWaitAtOnce ==
    [][\A s \in Sessions :
          (sessions[s].pc = "wait" /\ sessions[s].disconnected) =>
              /\ sessions'[s].pc \in {"wait", "closed"}
              /\ sessions'[s].emitted = sessions[s].emitted]_vars

\* C17: a LIVE session whose consumer has disconnected eventually is
\* CLOSED with its queue out of the hub's listeners; the step that closes
\* it is an unsubscribe that raised nothing; and from then on the queue is
\* never a listener again and no step puts anything on it.
C17_DisconnectLeadsToClosed ==
    /\ \A s \in Sessions :
          (Live(s) /\ sessions[s].disconnected)
             ~> (Closed(s) /\ sessions[s].queue \notin listeners)
    /\ [][\A s \in Sessions :
             /\ (~Closed(s) /\ Closed(s)') => (ret'.op = "unsubscribe" /\ ~ret'.raised)
             /\ Closed(s) =>
                   /\ sessions[s].queue \notin listeners'
                   /\ queues'[sessions[s].queue] = queues[sessions[s].queue]]_vars

C17_Witness ==
    \E s \in Sessions :
        /\ Closed(s)
        /\ sessions[s].disconnected
        /\ \E i \in DOMAIN sessions[s].emitted : sessions[s].emitted[i].phase = "live"
        /\ ret.op = "publish"
        /\ sessions[s].queue \notin listeners

\* C18: publish can be called in every state, whatever the queues hold
\* (it waits for no subscriber); every call returns without an exception;
\* every listener either has the message as the newest item of its queue
\* or was skipped with its queue still full, and a listener with a full
\* queue keeps none of the others from being served.
C18_PublishNeverBlocksOrRaises ==
    /\ [](Len(published) < MaxPublish =>
             \A input \in MessageInputs : ENABLED Publish(input))
    /\ [][/\ published' # published
          => /\ ret'.op = "publish"
             /\ ~ret'.raised
             /\ \A q \in listeners :
                   IF q \in ret'.skipped
                   THEN Full(queues'[q])
                   ELSE /\ queues'[q] # <<>>
                        /\ queues'[q][Len(queues'[q])] = ret'.message
                        /\ Len(queues'[q]) <= QueueMaxsize]_vars

C18_Witness ==
    /\ ret.op = "publish"
    /\ ret.overflowed # {}
    /\ listeners \ ret.overflowed # {}
    /\ \A q \in listeners : queues[q][Len(queues[q])] = ret.message
    /\ \E q \in listeners : queues[q] = <<ret.message>>

\* C19: a store that has been built has a positive retention window and a
\* positive max_items (anything else was rejected when it was built), so
\* every insert is into such a store; and an insert into a store with a
\* positive window and a positive max_items raises nothing.
C19_NonPositiveConfigRejected ==
    /\ config.built => (config.retention > 0 /\ config.max_items > 0)
    /\ npackets + nrssi > 0 => (config.retention > 0 /\ config.max_items > 0)
    /\ (ret.op \in {"add_packet", "add_rssi"} /\ config.retention > 0 /\ config.max_items > 0)
          => ~ret.raised

\* An inserted item without its identity: what the request body held.
AsInput(item) == [f \in DOMAIN item \ {"id"} |-> item[f]]

\* C20: the store and hub calls of the ingestion path come in pairs, an
\* insert of an item and then the publish of a message of the same kind
\* carrying that item, so nothing is published before it is inserted and
\* every publish is of an inserted item; a request that has returned
\* reports accepted = k for its k items, and the last 2k calls are the
\* insert and the publish of item 1, ..., item k in list order, once each;
\* the store has counted exactly the inserts made, and holds only
\* inserted items (those that eviction left).
C20_InsertThenPublishEach ==
    /\ \A i \in DOMAIN oplog :
          IF i % 2 = 1
          THEN /\ oplog[i].op = "insert"
               /\ i = Len(oplog) => ingest.pc = "publish"
          ELSE /\ oplog[i].op = "publish"
               /\ oplog[i].kind = oplog[i - 1].kind
               /\ oplog[i].item = ModelDump(oplog[i - 1].item)
               /\ published[i \div 2].event_type = oplog[i].kind
               /\ published[i \div 2].payload = oplog[i].item
    /\ Len(published) = Len(oplog) \div 2
    /\ npackets = Cardinality({i \in DOMAIN oplog :
                                 oplog[i].op = "insert" /\ oplog[i].kind = "packet"})
    /\ nrssi = Cardinality({i \in DOMAIN oplog :
                              oplog[i].op = "insert" /\ oplog[i].kind = "rssi"})
    /\ \A j \in DOMAIN packets :
          \E i \in DOMAIN oplog :
             oplog[i].op = "insert" /\ oplog[i].kind = "packet" /\ oplog[i].item = packets[j]
    /\ \A j \in DOMAIN rssi :
          \E i \in DOMAIN oplog :
             oplog[i].op = "insert" /\ oplog[i].kind = "rssi" /\ oplog[i].item = rssi[j]
    /\ ret.op = "ingest" =>
          LET k == Len(ret.items)
              base == Len(oplog) - 2 * k
          IN /\ ret.accepted = k
             /\ base >= 0
             /\ \A i \in 1..k :
                   /\ oplog[base + 2 * i - 1].kind = ret.kind
                   /\ AsInput(oplog[base + 2 * i - 1].item) = ret.items[i]

C20_Witness ==
    /\ ret.op = "ingest"
    /\ ret.kind = "packet"
    /\ ret.accepted = MaxBatch
    /\ ret.items[1] # ret.items[2]
    /\ Len(packets) < npackets
    /\ \E s \in Sessions : Live(s) /\ queues[sessions[s].queue] # <<>>

\* What a task that holds the store's lock for a query finds: both
\* histories within max_items, every retained packet that is the latest of
\* its station and not older than the last cutoff in the index under its
\* callsign, and no index entry older than the cutoff of the last insert.
StoreSettled ==
    /\ Len(packets) <= config.max_items
    /\ Len(rssi) <= config.max_items
    /\ npackets > 0 => last_cutoff # None
    /\ \A i \in DOMAIN packets :
          LET p == packets[i]
          IN (/\ Truthy(p.source_callsign)
              /\ latest[p.source_callsign[1]] = p
              /\ ~IsStale(p, last_cutoff[1], now))
                => /\ p.source_callsign[1] \in DOMAIN last_seen
                   /\ last_seen[p.source_callsign[1]] = p
    /\ \A c \in DOMAIN last_seen : ~IsStale(last_seen[c], last_cutoff[1], now)

\* C21: whatever the interleaving of the tasks, a query reads the store
\* only in a settled state (no history above max_items, no packet appended
\* and not yet indexed, no index not yet pruned with the cutoff of the last
\* insert), no insert is between two of its statements while a query reads,
\* and what a query returned is never above max_items.
C21_QueriesSeeNoInsertHalfDone ==
    /\ \A t \in Tasks :
          (calls[t].op \in QueryOps /\ calls[t].pc = "read") =>
              /\ StoreSettled
              /\ locks.store = t
              /\ \A u \in Tasks :
                    calls[u].op \in InsertOps => calls[u].pc \in {"idle", "acquire"}
    /\ ret.op \in {"get_recent_packets", "get_recent_rssi"} =>
          Len(ret.value) <= config.max_items
    /\ ret.op = "stats" =>
          /\ ret.value.packets <= config.max_items
          /\ ret.value.rssi_samples <= config.max_items
    /\ ret.op = "snapshot_stream_events" => Len(ret.value) <= 2 * config.max_items

\* C21 witness: an insert is between its append and its index statement,
\* with the packet history above max_items and the new packet not in the
\* index, while a query of another task waits for the lock.
C21_Witness ==
    \E t, u \in Tasks :
        /\ calls[t].op = "add_packet"
        /\ calls[t].pc = "index"
        /\ Len(packets) > config.max_items
        /\ calls[t].arg[1].source_callsign[1] \notin DOMAIN last_seen
        /\ calls[u].op \in QueryOps
        /\ calls[u].pc = "acquire"

C23_SnapshotBeforeSubscribe ==
    /\ [](\A s \in Sessions :
             /\ sessions[s].pc = "idle" => sessions[s].queue \notin DOMAIN queues
             /\ sessions[s].pc = "snapshotted" => sessions[s].queue \notin DOMAIN queues
             /\ sessions[s].queue \in DOMAIN queues =>
                   sessions[s].pc \notin {"idle", "snapshotted"})
    /\ [][/\ \A s \in Sessions :
                /\ (sessions[s].pc = "idle" /\ sessions'[s].pc # "idle") =>
                      /\ sessions'[s].pc = "snapshotted"
                      /\ ret'.op = "snapshot_stream_events"
                      /\ sessions'[s].initial_messages = ret'.value
                      /\ listeners' = listeners
                      /\ queues' = queues
                /\ sessions'[s].queue # sessions[s].queue =>
                      /\ sessions[s].pc = "snapshotted"
                      /\ ret'.op = "subscribe"
                      /\ sessions'[s].queue \in listeners' \ listeners
          /\ listeners' \ listeners # {} =>
                \E s \in Sessions :
                   /\ sessions[s].pc = "snapshotted"
                   /\ listeners' \ listeners = {sessions'[s].queue}]_vars

\* C23 witness: a session holds a snapshot of two retained items and has
\* just registered its queue, which is still empty.
C23_Witness ==
    \E s \in Sessions :
        /\ sessions[s].pc = "created"
        /\ ret.op = "subscribe"
        /\ Len(sessions[s].initial_messages) = 2
        /\ sessions[s].queue \in listeners
        /\ queues[sessions[s].queue] = <<>>

\* The session has captured its snapshot and has not ended: it is between
\* its two awaits, or it has a registered queue and its generator has not
\* finished.
StartingOrOpen(s) ==
    sessions[s].pc \in {"snapshotted", "created", "yield_replay", "wait", "timed_out",
                        "yield_live"}

\* The message, as the replay would emit it, is in the session's snapshot.
InSnapshot(s, message) ==
    \E j \in DOMAIN sessions[s].initial_messages :
        sessions[s].initial_messages[j] = StreamMessage(message.event_type, message.payload)

Publishing(t) == calls[t].op = "publish"

MessagesOn(queue) == {queue[i] : i \in DOMAIN queue}

\* C26: publish copies the listeners while it holds the hub's lock, the
\* copy being the whole set as it is then, and holds no lock while it
\* walks the copy; whatever subscribe and unsubscribe do in between, a
\* message is put only on queues of the copy of its own publish, at most
\* once on each, so that a queue registered after the copy never holds it;
\* the walk can always go on, and when publish returns every queue of the
\* copy has been served or skipped as full.
C26_PublishFansOutOverItsCopy ==
    /\ [](\A t \in Tasks :
             /\ calls[t].pc \in {"body", "release"} => locks.hub = t
             /\ calls[t].pc = "deliver" =>
                   /\ locks.hub # t
                   /\ ENABLED (PublishDeliver(t) \/ PublishReturn(t))
             /\ (Publishing(t) /\ calls[t].pc = "deliver") =>
                   /\ calls[t].delivered \cup calls[t].skipped \subseteq calls[t].copy
                   /\ \A q \in DOMAIN queues \ calls[t].delivered :
                         calls[t].arg[1] \notin MessagesOn(queues[q]))
    /\ [](\A q \in DOMAIN queues :
             \A i, j \in DOMAIN queues[q] : queues[q][i] = queues[q][j] => i = j)
    /\ [][/\ \A t \in Tasks :
             /\ (Publishing(t) /\ calls[t].pc = "body" /\ calls'[t].pc = "release") =>
                   calls'[t].copy = listeners
             /\ (Publishing(t) /\ calls[t].pc = "deliver" /\ calls'[t].pc = "idle") =>
                   /\ calls[t].delivered \cup calls[t].skipped = calls[t].copy
                   /\ ~ret'.raised
          /\ \A q \in DOMAIN queues :
                \A message \in MessagesOn(queues'[q]) \ MessagesOn(queues[q]) :
                   \E t \in Tasks :
                      /\ Publishing(t)
                      /\ calls[t].pc = "deliver"
                      /\ calls[t].arg[1] = message
                      /\ q \in calls[t].copy
                      /\ locks.hub # t]_vars

\* C26 witness: a publish has walked its copy to the end; since the copy
\* was taken one of its queues has been unsubscribed and another queue has
\* been subscribed, which does not hold the message.
C26_Witness ==
    \E t \in Tasks :
        /\ Publishing(t)
        /\ calls[t].pc = "deliver"
        /\ calls[t].listeners = <<>>
        /\ \E q \in calls[t].copy \ listeners : q \in unsubscribed
        /\ \E q \in listeners \ calls[t].copy : calls[t].arg[1] \notin MessagesOn(queues[q])

\* C27: every queue subscribe has created holds at most QueueMaxsize
\* messages in every state, also when nothing is ever read from it; and a
\* publish that finds a registered queue full takes exactly one message off
\* it, the oldest, and adds the new one at the end.
C27_QueueNeverAboveMaxsize ==
    /\ [](\A q \in DOMAIN queues : Len(queues[q]) <= QueueMaxsize)
    /\ [][published' # published =>
             \A q \in listeners :
                Len(queues[q]) = QueueMaxsize =>
                    /\ MessagesOn(queues[q]) \ MessagesOn(queues'[q]) = {Head(queues[q])}
                    /\ MessagesOn(queues'[q]) \ MessagesOn(queues[q]) = {NewMessage}
                    /\ queues'[q] = Append(Tail(queues[q]), NewMessage)]_vars

\* C27 witness: more messages than a queue can hold have been published
\* to a queue from which nothing was read: it holds the newest QueueMaxsize
\* of them.
C27_Witness ==
    /\ Len(published) > QueueMaxsize
    /\ ret.op = "publish"
    /\ \E q \in listeners :
          queues[q] = SubSeq(published, Len(published) - QueueMaxsize + 1, Len(published))

\* s is what is left of full after items were taken from its front.
IsSuffix(s, full) ==
    \E k \in 0..Len(full) : s = SubSeq(full, k + 1, Len(full))

\* C28: an insert leaves a history as a suffix of what it held with the
\* new item appended (items go only from the oldest end, nothing is
\* reordered, nothing comes back), no other operation changes a history,
\* so each history is a run of consecutively inserted items ending with
\* the last one inserted unless it is empty; and get_recent_packets,
\* get_recent_rssi and snapshot_stream_events return the items of the
\* histories as they are, never an evicted one.
C28_HistoryIsSuffixOfInserted ==
    /\ [](/\ \A i \in DOMAIN packets : packets[i].id = packets[1].id + i - 1
          /\ \A i \in DOMAIN rssi : rssi[i].id = rssi[1].id + i - 1
          /\ \A i \in DOMAIN packets : packets[i].id <= npackets
          /\ \A i \in DOMAIN rssi : rssi[i].id <= nrssi)
    /\ [][/\ IF ret'.op = "add_packet" /\ npackets' # npackets
             THEN IsSuffix(packets', Append(packets, ret'.item))
             ELSE packets' = packets
          /\ IF ret'.op = "add_rssi" /\ nrssi' # nrssi
             THEN IsSuffix(rssi', Append(rssi, ret'.item))
             ELSE rssi' = rssi
          /\ ret'.op = "get_recent_packets" => ret'.value = packets'
          /\ ret'.op = "get_recent_rssi" => ret'.value = rssi'
          /\ ret'.op = "snapshot_stream_events" =>
                \A j \in DOMAIN ret'.value :
                   \/ \E i \in DOMAIN packets' :
                         ret'.value[j] = StreamMessage("packet", ModelDump(packets'[i]))
                   \/ \E i \in DOMAIN rssi' :
                         ret'.value[j] = StreamMessage("rssi", ModelDump(rssi'[i]))]_vars

\* C28 witness: the first packet inserted is gone, a stale one inserted
\* later is still there behind a fresh one, and get_recent_packets has
\* returned exactly what is left.
C28_Witness ==
    /\ ret.op = "get_recent_packets"
    /\ ret.value = packets
    /\ Len(packets) = 2
    /\ packets[1].id = 2
    /\ IsStale(packets[2], Cutoff(now), now)
    /\ ~IsStale(packets[1], Cutoff(now), now)

\* C29: add_rssi leaves the packet history and the last-seen index exactly
\* as they were, also when they hold items older than its cutoff, and
\* changes the sample history only by appending and evicting from the
\* front; add_packet leaves the sample history exactly as it was.
C29_InsertTouchesOnlyItsHistory ==
    [][/\ (ret'.op = "add_rssi" /\ nrssi' # nrssi) =>
             /\ packets' = packets
             /\ last_seen' = last_seen
             /\ IsSuffix(rssi', Append(rssi, ret'.item))
       /\ (ret'.op = "add_packet" /\ npackets' # npackets) =>
             rssi' = rssi]_vars

\* C29 witness: add_rssi has returned while the head of the packet history
\* and an index entry are older than the cutoff it computed; the new sample
\* is the newest of the sample history.
C29_Witness ==
    /\ ret.op = "add_rssi"
    /\ packets # <<>>
    /\ IsStale(packets[1], ret.cutoff, ret.at)
    /\ \E c \in DOMAIN last_seen : IsStale(last_seen[c], ret.cutoff, ret.at)
    /\ rssi # <<>>
    /\ rssi[Len(rssi)] = ret.item

\* The instant an Optional timestamp that is present denotes: a reading
\* without zone is a UTC reading, a reading with a zone is that many units
\* ahead of UTC.
InstantOfTimestamp(ts) ==
    IF ts[1].tz = None THEN ts[1].wall ELSE ts[1].wall - ts[1].tz[1]

\* C30: the effective datetime of a packet is its timestamp when it has
\* one, whatever its unix_time; else its unix_time as a UTC reading; else
\* the current time.  That of a sample is its timestamp when it has one,
\* else the current time.  The result is always a UTC reading; it denotes
\* the instant of the timestamp, a timestamp without zone being read as
\* UTC.
C30_EffectiveDatetimePriority ==
    ret.op = "effective_datetime" =>
        LET item == ret.item
            value == ret.value
        IN /\ value.tz = UTC
           /\ item.timestamp # None =>
                 /\ value.wall = InstantOfTimestamp(item.timestamp)
                 /\ item.timestamp[1].tz = None => value.wall = item.timestamp[1].wall
           /\ (item.timestamp = None /\ "unix_time" \in DOMAIN item) =>
                 IF item.unix_time # None
                 THEN value.wall = item.unix_time[1]
                 ELSE value.wall = ret.at
           /\ (item.timestamp = None /\ "unix_time" \notin DOMAIN item) =>
                 value.wall = ret.at

\* C30 witness: a packet with a timestamp in a zone east of UTC and with a
\* unix_time that denotes another instant: the result is the timestamp's
\* instant, which differs from its wall reading, from unix_time and from
\* the current time.
C30_Witness ==
    /\ ret.op = "effective_datetime"
    /\ "unix_time" \in DOMAIN ret.item
    /\ ret.item.timestamp # None
    /\ ret.item.unix_time # None
    /\ ret.item.timestamp[1].tz = Some(1)
    /\ ret.value.wall = ret.item.timestamp[1].wall - 1
    /\ ret.value.wall # ret.item.unix_time[1]
    /\ ret.value.wall # ret.at

\* C31: snapshot_stream_events is stable on ties: of two messages with the
\* same effective_datetime a sample never stands before a packet, and two
\* of the same history stand in the order they were inserted.
C31_SnapshotStableOnTies ==
    ret.op = "snapshot_stream_events" =>
        \A i, j \in DOMAIN ret.value :
            (/\ i < j
             /\ Instant(MessageEffective(ret.value[i], ret.at))
                   = Instant(MessageEffective(ret.value[j], ret.at)))
            => /\ ~(ret.value[i].event_type = "rssi" /\ ret.value[j].event_type = "packet")
               /\ ret.value[i].event_type = ret.value[j].event_type
                     => ret.value[i].payload.id < ret.value[j].payload.id

\* C31 witness: a snapshot of two packets and a sample that all have the
\* same effective_datetime: the packets come first, in insertion order.
C31_Witness ==
    /\ ret.op = "snapshot_stream_events"
    /\ Len(ret.value) = 3
    /\ \A i \in 1..3 : Instant(MessageEffective(ret.value[i], ret.at))
                          = Instant(MessageEffective(ret.value[1], ret.at))
    /\ ret.value[1].event_type = "packet" /\ ret.value[1].payload.id = 1
    /\ ret.value[2].event_type = "packet" /\ ret.value[2].payload.id = 2
    /\ ret.value[3].event_type = "rssi"

\* C32: when add_packet has returned, no entry of the last-seen index has
\* an effective_datetime earlier than the cutoff of that call (the clock
\* reading of the call minus the retention window), the entry the call
\* wrote included: that entry stays exactly when its packet is not older
\* than the cutoff.  The cutoff is the one _trim computed for the eviction
\* of the packet history.
C32_IndexPrunedToInsertCutoff ==
    ret.op = "add_packet" =>
        /\ ret.cutoff = [wall |-> ret.at - config.retention, tz |-> UTC]
        /\ last_cutoff = Some(ret.cutoff)
        /\ \A c \in DOMAIN last_seen :
              ~DtLess(PacketEffectiveDatetime(last_seen[c], ret.at), ret.cutoff)
        /\ Truthy(ret.item.source_callsign) =>
              (ret.item.source_callsign[1] \in DOMAIN last_seen
                  <=> ~DtLess(PacketEffectiveDatetime(ret.item, ret.at), ret.cutoff))

\* C32 witness: add_packet has returned for a packet that names its station
\* and is older than the cutoff: the entry the call wrote is gone again,
\* and the index still holds the entry of another station.
C32_Witness ==
    /\ ret.op = "add_packet"
    /\ Truthy(ret.item.source_callsign)
    /\ DtLess(PacketEffectiveDatetime(ret.item, ret.at), ret.cutoff)
    /\ ret.item.source_callsign[1] \notin DOMAIN last_seen
    /\ DOMAIN last_seen # {}

\* The step in which session s hands a heartbeat to its response.
YieldsHeartbeat(s) ==
    /\ sessions'[s] # sessions[s]
    /\ ret'.op = "yield"
    /\ ret'.session = s
    /\ ret'.message.event_type = "heartbeat"

\* What holds of heartbeats wherever they are emitted: none is among the
\* replayed messages, a session that is CLOSED emits nothing more, and no
\* heartbeat is on a hub queue, among the published messages or in a
\* snapshot.
HeartbeatsOnlyLive(s) ==
    /\ (Closed(s) \/ sessions[s].pc = "abandoned") =>
          sessions'[s].emitted = sessions[s].emitted
    /\ \A i \in DOMAIN sessions'[s].emitted :
          sessions'[s].emitted[i].message.event_type = "heartbeat" =>
              /\ sessions'[s].emitted[i].phase = "live"
              /\ i > Len(sessions'[s].initial_messages)
    /\ \A i \in DOMAIN sessions'[s].initial_messages :
          sessions'[s].initial_messages[i].event_type # "heartbeat"
    /\ \A q \in DOMAIN queues' : \A i \in DOMAIN queues'[q] :
          queues'[q][i].event_type # "heartbeat"
    /\ \A i \in DOMAIN published' : published'[i].event_type # "heartbeat"

AddPacketStep == npackets' = npackets + 1

\* C34: add_packet of a packet whose source_callsign is None or empty
\* appends the packet to the packet history (which then is a suffix of the
\* old history with the packet appended), and adds no index entry and
\* overwrites none: every entry that is left is the one that was there,
\* and every entry that is gone was older than the cutoff of the call.
C34_NoCallsignLeavesIndexToPruning ==
    [][(AddPacketStep /\ ret'.item.source_callsign \in {None, Some("")}) =>
          /\ IsSuffix(packets', Append(packets, ret'.item))
          /\ ~IsStale(ret'.item, ret'.cutoff, ret'.at) =>
                (packets' # <<>> /\ packets'[Len(packets')] = ret'.item)
          /\ DOMAIN last_seen' \subseteq DOMAIN last_seen
          /\ \A c \in DOMAIN last_seen' : last_seen'[c] = last_seen[c]
          /\ \A c \in DOMAIN last_seen \ DOMAIN last_seen' :
                DtLess(PacketEffectiveDatetime(last_seen[c], ret'.at), ret'.cutoff)
          /\ latest' = latest
      ]_vars

\* C34 witness: add_packet has returned for a packet with an empty
\* source_callsign, which is the newest of the history; the index has no
\* entry for the empty string, still holds the entry of one station, and
\* has lost the entry of another, whose packet is older than the cutoff.
C34_Witness ==
    /\ ret.op = "add_packet"
    /\ ret.item.source_callsign = Some("")
    /\ packets # <<>>
    /\ packets[Len(packets)] = ret.item
    /\ "" \notin DOMAIN last_seen
    /\ DOMAIN last_seen # {}
    /\ \E c \in DOMAIN latest :
          /\ c \notin DOMAIN last_seen
          /\ DtLess(PacketEffectiveDatetime(latest[c], ret.at), ret.cutoff)

\* The item carries neither a timestamp nor a unix_time.
Undated(item) ==
    /\ item.timestamp = None
    /\ "unix_time" \in DOMAIN item => item.unix_time = None

\* The items of a history that are undated.
UndatedIn(collection) == {collection[i] : i \in {j \in DOMAIN collection : Undated(collection[j])}}

\* The items of a history.
ItemsOf(collection) == {collection[i] : i \in DOMAIN collection}

\* C35: an undated item is never removed by the age pass of _trim, at
\* whatever clock reading the insert is made: when an insert removes an
\* undated item from a history, the capacity pass removed it, the history
\* is left with max_items items, all of them inserted later.  The index
\* entry of an undated packet is never pruned: it stays until a packet of
\* the same station is inserted, and the entry an undated packet writes
\* is there when add_packet returns.
C35_UndatedNeverAgedOut ==
    [][/\ AddPacketStep =>
             /\ \A item \in UndatedIn(packets) \ ItemsOf(packets') :
                   /\ item.id \notin aged'
                   /\ Len(packets') = config.max_items
                   /\ \A kept \in ItemsOf(packets') : kept.id > item.id
             /\ Undated(ret'.item) =>
                   (packets' # <<>> /\ packets'[Len(packets')] = ret'.item)
             /\ \A c \in DOMAIN last_seen :
                   (Undated(last_seen[c]) /\ ret'.item.source_callsign # Some(c)) =>
                       /\ c \in DOMAIN last_seen'
                       /\ last_seen'[c] = last_seen[c]
             /\ (Undated(ret'.item) /\ ret'.item.source_callsign = Some("A")) =>
                   ("A" \in DOMAIN last_seen' /\ last_seen'["A"] = ret'.item)
       /\ nrssi' = nrssi + 1 =>
             /\ \A item \in UndatedIn(rssi) \ ItemsOf(rssi') :
                   /\ item.id \notin aged_rssi'
                   /\ Len(rssi') = config.max_items
                   /\ \A kept \in ItemsOf(rssi') : kept.id > item.id
             /\ Undated(ret'.item) => (rssi' # <<>> /\ rssi'[Len(rssi')] = ret'.item)
       /\ \A item \in UndatedIn(packets) : item.id \notin aged
       /\ \A item \in UndatedIn(rssi) : item.id \notin aged_rssi
      ]_vars

\* C35 witness: add_packet has returned at the last clock reading; the age
\* pass of that call has removed a packet, and the undated packet that was
\* behind it is now the head of the history and still in the index, with
\* the packet just inserted behind it.
C35_Witness ==
    /\ ret.op = "add_packet"
    /\ ret.at = MaxTime
    /\ Len(packets) = 2
    /\ Undated(packets[1])
    /\ packets[1].id = 2
    /\ 1 \in aged
    /\ packets[2] = ret.item
    /\ ~Undated(ret.item)
    /\ ret.item.source_callsign = Some("B")
    /\ "A" \in DOMAIN last_seen
    /\ last_seen["A"] = packets[1]

\* C36: the packet history and the index change only in add_packet, the
\* sample history only in add_rssi: no other step, the passing of time
\* included, changes them.  So a read returns what the last insert into
\* the history left, however long ago that was: get_recent_packets,
\* get_recent_rssi and get_last_seen return the whole history or index,
\* items older than the current cutoff included.
C36_OnlyInsertsChangeTheStore ==
    [][/\ npackets' = npackets => (packets' = packets /\ last_seen' = last_seen)
       /\ nrssi' = nrssi => rssi' = rssi
       /\ now' # now => (packets' = packets /\ rssi' = rssi /\ last_seen' = last_seen)
       /\ ret'.op = "get_recent_packets" => ret'.value = packets
       /\ ret'.op = "get_recent_rssi" => ret'.value = rssi
       /\ ret'.op = "get_last_seen" => ret'.value = last_seen
      ]_vars

\* C36 witness: get_recent_packets, called two clock units after the last
\* add_packet, has returned a packet that is older than the cutoff of the
\* time of the call, and the sample history holds such a sample too.
C36_Witness ==
    /\ ret.op = "get_recent_packets"
    /\ ret.at = MaxTime
    /\ last_cutoff = Some([wall |-> 0 - config.retention, tz |-> UTC])
    /\ ret.value # <<>>
    /\ ret.value = packets
    /\ \E i \in DOMAIN ret.value : IsStale(ret.value[i], Cutoff(ret.at), ret.at)
    /\ \E i \in DOMAIN rssi : IsStale(rssi[i], Cutoff(ret.at), ret.at)

\* The n-th published message is on the queue of session s, which is LIVE.
OnQueueOf(s, n) ==
    /\ Live(s)
    /\ \E i \in DOMAIN queues[sessions[s].queue] : queues[sessions[s].queue][i].id = n

\* Session s has emitted the n-th published message from its while loop.
EmittedLive(s, n) ==
    \E i \in DOMAIN sessions[s].emitted :
        /\ sessions[s].emitted[i].phase = "live"
        /\ sessions[s].emitted[i].message.event_type # "heartbeat"
        /\ sessions[s].emitted[i].message.id = n

\* C37: under fair scheduling a message on the queue of a LIVE session is
\* eventually emitted by the session, unless it leaves the queue unemitted
\* or the consumer disconnects or the session is closed first.  A message
\* leaves the queue of a session that is not closed only when the session
\* emits it from the head, or when a publish finds the queue full and
\* drops the head; the timeout of a wait and the heartbeat that follows
\* take nothing from the queue.
C37_QueuedMessageIsEmitted ==
    /\ \A s \in Sessions : \A n \in 1..MaxPublish :
          OnQueueOf(s, n)
             ~> \/ EmittedLive(s, n)
                \/ ~OnQueueOf(s, n) /\ ~EmittedLive(s, n)
                \/ sessions[s].disconnected
                \/ Closed(s)
    /\ [][\A s \in Sessions :
             Live(s) =>
                LET queue == queues[sessions[s].queue]
                    after == queues'[sessions[s].queue]
                IN /\ \A i \in DOMAIN queue :
                         (\A j \in DOMAIN after : after[j] # queue[i]) =>
                            /\ i = 1
                            /\ \/ /\ sessions[s].pc = "wait"
                                  /\ sessions'[s].pc = "yield_live"
                                  /\ sessions'[s].emitted =
                                        Append(sessions[s].emitted,
                                               [phase |-> "live", message |-> queue[1],
                                                chunk |-> FormatMessage(queue[1])])
                               \/ /\ ret'.op = "publish"
                                  /\ Full(queue)
                                  /\ after = Append(Tail(queue), ret'.message)
                   /\ (/\ sessions'[s].pc # sessions[s].pc
                       /\ "timed_out" \in {sessions[s].pc, sessions'[s].pc}) =>
                         after = queue
         ]_vars

\* C37 witness: a session has emitted a heartbeat and, after it, a message
\* taken from its queue, while another message was dropped from the queue
\* by a publish that found it full.
C37_Witness ==
    \E s \in Sessions :
        LET emitted == sessions[s].emitted
        IN /\ Live(s)
           /\ \E i \in DOMAIN emitted :
                 /\ i > 1
                 /\ emitted[i - 1].message.event_type = "heartbeat"
                 /\ emitted[i].message.event_type # "heartbeat"
                 /\ emitted[i].phase = "live"
           /\ \E n \in 1..Len(published) :
                 /\ ~EmittedLive(s, n)
                 /\ ~OnQueueOf(s, n)
                 /\ \E m \in (n + 1)..Len(published) : EmittedLive(s, m) \/ OnQueueOf(s, m)

\* The items of the post attempts made so far, in order.
RECURSIVE PostedItems(_)
PostedItems(posts) ==
    IF posts = <<>> THEN <<>>
    ELSE PostedItems(SubSeq(posts, 1, Len(posts) - 1)) \o posts[Len(posts)].items

\* No item is in two post attempts.
NoItemPostedTwice ==
    \A i, j \in DOMAIN PostedItems(tool.posts) :
        i # j => PostedItems(tool.posts)[i] # PostedItems(tool.posts)[j]

\* The batch never holds more than max(1, batch_size) items; it holds that
\* many only at the test that follows the append, and every attempt made
\* in the loop posted exactly that many.
BatchBounded ==
    /\ Len(tool.batch) <= Max(1, tool.batch_size)
    /\ tool.pc \in {"rows", "loop_top", "samples", "flush"} =>
          Len(tool.batch) < Max(1, tool.batch_size)
    /\ \A i \in DOMAIN tool.posts :
          tool.posts[i].at = "loop" => Len(tool.posts[i].items) = Max(1, tool.batch_size)

\* When main() has returned, every item that was collected has been in
\* one post attempt: what the loop left in the batch was posted by the
\* flush.
LeftoverFlushed ==
    (tool.pc = "done" /\ tool.posting) =>
        /\ PostedItems(tool.posts) = [i \in 1..tool.produced |-> Item(i)]
        /\ tool.batch # <<>> =>
              /\ tool.posts # <<>>
              /\ tool.posts[Len(tool.posts)].at = "flush"
              /\ tool.posts[Len(tool.posts)].items = tool.batch

\* C38: in the posting loops of direwolf_csv_tail and rtl_power_monitor
\* the batch never holds more than max(1, batch_size) items, it is posted
\* as soon as it holds that many and is empty after the attempt, whatever
\* the outcome; no item is posted twice; and the items left in the batch
\* when the loop ends are posted once by the shutdown flush.
C38_BatchPostedAndFlushed ==
    /\ BatchBounded
    /\ NoItemPostedTwice
    /\ LeftoverFlushed

\* The frame is rtl_power_monitor's, started with --count N, N >= 1.
Counted == tool.kind = "rtl_power_monitor" /\ TruthyInt(tool.count)

\* C39: rtl_power_monitor started with --count N, N >= 1, never makes more
\* than N runs, leaves its loop by the break exactly when N runs are done,
\* whatever their exit status and however many samples they gave, and then
\* returns 0; unless it is stopped from outside it does get there.  With
\* --count omitted it never reaches the break: it does not leave the loop
\* and never returns 0.
C39_CountBoundsTheRuns ==
    /\ [](Counted =>
             /\ Len(tool.runs) <= tool.count[1]
             /\ tool.iterations <= tool.count[1]
             /\ tool.pc = "flush" => tool.iterations = tool.count[1]
             /\ tool.exit = Some(0) =>
                   (tool.iterations = tool.count[1] /\ Len(tool.runs) = tool.count[1])
             /\ (tool.pc = "done" /\ tool.iterations = tool.count[1]) => tool.exit = Some(0))
    /\ []((tool.kind = "rtl_power_monitor" /\ tool.count = None) =>
             /\ tool.pc # "flush"
             /\ tool.exit # Some(0)
             /\ tool.pc = "done" => tool.exit \in {Some(130), Some(1)})
    /\ Counted ~> (tool.pc = "done")
    /\ [][(Counted /\ tool.pc # "done" /\ tool'.pc = "done" /\ tool'.exit # Some(0))
             => (Interrupt \/ PostInterrupted \/ Crash)]_vars

\* C39 witness: rtl_power_monitor --count 2 has returned 0 after two runs,
\* one of which exited non-zero and one of which gave no sample.
C39_Witness ==
    /\ tool.kind = "rtl_power_monitor"
    /\ tool.count = Some(MaxCount)
    /\ tool.exit = Some(0)
    /\ Len(tool.runs) = MaxCount
    /\ \E i \in DOMAIN tool.runs : tool.runs[i].returncode # 0
    /\ \E i \in DOMAIN tool.runs : tool.runs[i].samples = 0

====
